---------------------------- MODULE Spec2Model ----------------------------
(***************************************************************************)
(* A model of wrapguard's virtual network stack (network.go) and of the    *)
(* WireGuard proxy's packet pumps (wireguard.go, MemoryTUN of ipc.go).     *)
(*                                                                         *)
(* Every exported operation of VirtualNetworkStack is an action of a       *)
(* calling thread.  An operation that releases the stack lock before it    *)
(* is finished is cut at that point into steps, so that the steps of       *)
(* other threads interleave exactly where the code allows it.              *)
(***************************************************************************)
EXTENDS Integers, Sequences, FiniteSets, TLC

(***************************************************************************)
(* Bounds of the model.                                                    *)
(***************************************************************************)
\* number of connection ids handed out in one run
MaxConn == 3
\* number of listener objects created in one run
MaxListeners == 2
\* number of operations the callers and the peer start in one run
MaxCalls == 6
\* number of payloads sent on one connection, and sent by the peer, in one run
MaxHist == 2
\* scaled capacity of IncomingData / OutgoingData (100 in network.go:65-66)
ChanCap == 1
\* scaled capacity of AcceptQueue (10 in network.go:110)
AcceptCap == 1
\* scaled capacity of outgoingPackets (1000 in network.go:45)
OutCap == 1
\* scaled capacity of MemoryTUN.inbound / outbound (1000 in ipc.go:136-137)
TunCap == 1

(***************************************************************************)
(* Values.                                                                 *)
(***************************************************************************)
Nil == "nil"
\* no data (a nil or empty byte slice); payloads are numbered from 1
NoData == 0
\* a nil net.Addr
NilAddr == [net |-> "nil", ip |-> "nil", port |-> 0]
\* no packet
NoPacket == [version |-> 0, proto |-> 0, src |-> <<"nil", 0>>, dst |-> <<"nil", 0>>,
             flags |-> {}, data |-> NoData]
ConnIDs == 1..MaxConn
Types == {"tcp", "udp"}
\* the payloads of one connection or of the peer are numbered in the order they
\* are handed over, so that a loss, a duplicate or a reordering shows
Payloads == 1..MaxHist

\* net.TCPAddr / net.UDPAddr: the network of the address, its IP and port
TCPAddr(ip, port) == [net |-> "tcp", ip |-> ip, port |-> port]
UDPAddr(ip, port) == [net |-> "udp", ip |-> ip, port |-> port]
MkAddr(type, ip, port) == IF type = "tcp" THEN TCPAddr(ip, port) ELSE UDPAddr(ip, port)

\* Addr.String(): "ip:port"; the network of the address is not part of it
String(a) == <<a.ip, a.port>>

\* the endpoints the callers and the peer use
LocalIPs == {"10.150.0.2"}
LocalPorts == {8080}
RemoteIPs == {"10.0.0.3"}
RemotePorts == {80}
BindAddrs(type) == {MkAddr(type, ip, port) : ip \in LocalIPs, port \in LocalPorts}
RemoteAddrs(type) == {MkAddr(type, ip, port) : ip \in RemoteIPs, port \in RemotePorts}

\* VirtualNetworkStack.localIP after construction (SetLocalAddress has no
\* caller outside the tests)
localIP == "nil"

\* the keys listeningSockets can hold
AddrKeys == {<<ip, port>> : ip \in LocalIPs \cup {localIP},
                            port \in LocalPorts \cup {30000 + (i % 30000) : i \in ConnIDs}}

VARIABLES
    nextConnID,        \* VirtualNetworkStack.nextConnID
    connections,       \* the keys of VirtualNetworkStack.connections
    conns,             \* the VirtualConnection objects, by id
    listeningSockets,  \* VirtualNetworkStack.listeningSockets: key -> listener (0: no entry)
    listeners,         \* the VirtualListener objects, in creation order
    outgoingPackets,   \* VirtualNetworkStack.outgoingPackets
    mu,                \* holder of VirtualNetworkStack.mu while it is blocked, or "free"
    thr,               \* per calling thread: the operation in progress or last finished
    handler,           \* per connection: its handleConnectionPackets goroutine
    panicked,          \* the operation that died of a runtime panic, or "no"
    sent,              \* history: payloads SendData queued, per connection
    emitted,           \* history: data payloads put on outgoingPackets, per connection
    delivered,         \* history: payloads delivery offered to IncomingData, per connection
    received,          \* history: payloads ReceiveData returned, per connection
    dropped,           \* history: payloads IncomingData had no room for, per connection
    closedIds,         \* history: ids CloseConnection succeeded on
    peerSeq,           \* history: number of data packets the peer sent
    calls,             \* history: number of operations started
    stopChan,          \* WireGuardProxy.stopChan is closed
    tunInbound,        \* MemoryTUN.inbound (packets from WireGuard to applications)
    tunOutbound,       \* MemoryTUN.outbound (packets from applications to WireGuard)
    tunClosed,         \* MemoryTUN.closed is closed
    deviceClosed,      \* device.Close() was called
    pump,              \* positions of routeIncomingPackets and routeOutgoingPackets,
                       \* and the packet routeOutgoingPackets holds
    stopper,           \* position of WireGuardProxy.Stop
    call,              \* the last call made on an object taken alone (the memory TUN,
                       \* the routing engine, the port assignment) and its result
    ctxDone,           \* the context given to PortForwarder.Run is cancelled
    msgChan,           \* IPCServer.msgChan, which is PortForwarder.msgChan
    msgClosed,         \* msgChan is closed
    pfListeners,       \* PortForwarder.listeners: port -> listener
    pfOpen,            \* the listeners net.Listen returned that are not closed
    pfRun,             \* position of PortForwarder.Run
    pfBinds,           \* history: the BIND messages Run received, each with its port
                       \* and whether the table held the port then
    pfSent,            \* history: number of messages sent on msgChan
    relay,             \* one PortForwarder.handleConnection: its two connections and
                       \* its two copying goroutines
    ipc,               \* the control connections of the IPCServer, each with its
                       \* handleConnection goroutine, and the history of msgChan
    fdMappings,        \* the shim's fd_mappings[fd].conn_id (0: no connection)
    nextFakeFd,        \* the shim's next_fake_fd
    sockOut,           \* requests written on the shim's control socket, not yet served
    sockIn,            \* responses written by the CCS, not yet read
    ccsNext,           \* the connection id the CCS hands out next
    shimThr,           \* per thread of the child: the intercepted call in progress
    live,              \* history: descriptors socket() returned, not yet given to
                       \* close(), each with the connection id the CCS returned for it
    shimCalls,         \* history: number of intercepted calls started
    mtun               \* the tunnel's MemoryTUN (tunnel.go) and the threads in its Write

vnsVars == <<nextConnID, connections, conns, listeningSockets, listeners,
             outgoingPackets, mu, handler, panicked>>
histVars == <<sent, emitted, delivered, received, dropped, closedIds, peerSeq>>
\* the ids CreateConnection has handed out
Issued == 1..nextConnID
wgVars == <<stopChan, tunInbound, tunOutbound, tunClosed, deviceClosed, pump, stopper>>
fwdVars == <<ctxDone, msgChan, msgClosed, pfListeners, pfOpen, pfRun, pfBinds, pfSent>>
\* the objects modelled apart from the network stack and the proxy
shimVars == <<fdMappings, nextFakeFd, sockOut, sockIn, ccsNext, shimThr, live, shimCalls>>
objVars == <<fwdVars, relay, ipc, shimVars, mtun>>
vars == <<vnsVars, thr, histVars, calls, wgVars, call, objVars>>

Apps == {"a1"}
Threads == Apps \cup {"net"}

(***************************************************************************)
(* Objects after construction.                                             *)
(***************************************************************************)
\* a VirtualConnection that was not created yet
NoConn == [Type |-> Nil, State |-> Nil, LocalAddr |-> NilAddr, RemoteAddr |-> NilAddr,
           IncomingData |-> <<>>, OutgoingData |-> <<>>, chClosed |-> FALSE]

\* CreateConnection's new object
NewConn(connType) == [Type |-> connType, State |-> "created", LocalAddr |-> NilAddr,
                      RemoteAddr |-> NilAddr, IncomingData |-> <<>>, OutgoingData |-> <<>>,
                      chClosed |-> FALSE]

\* ListenConnection's new object
NewListener(conn) == [Addr |-> conn.LocalAddr, Type |-> conn.Type, AcceptQueue |-> <<>>]

\* a thread: the operation, the step it is at, the id it works on (a connection
\* or a listener), the address and the payload it carries, and what it returned
Idle == [op |-> "none", step |-> "done", id |-> 0, addr |-> NilAddr, data |-> NoData,
         pkt |-> NoPacket, ret |-> Nil]
Call(op, step, id) == [Idle EXCEPT !.op = op, !.step = step, !.id = id]
Done(op, id, ret) == [Idle EXCEPT !.op = op, !.id = id, !.ret = ret]

\* a runtime panic ends the process
Running == panicked = "no"
Ready(t) == Running /\ thr[t].step = "done"
At(t, op, step) == Running /\ thr[t].op = op /\ thr[t].step = step

NoHandler == [pc |-> "none", pkt |-> NoPacket]

\* no call was made yet
NoCall == [op |-> "none"]
\* no connection accepted by the port forwarder yet
NoRelay == [state |-> "none"]
\* the control connections
IpcConns == {1, 2}
\* the shim: the first synthesized descriptor, and the number of entries of
\* fd_mappings above it (24 in the code: the table has 1024 entries)
FdBase == 1000
FdSlots == 2
FdLimit == FdBase + FdSlots
ShimThreads == {"c1", "c2"}
ShimIdle == [pc |-> "idle", op |-> "none", ret |-> 0]
\* a control connection on which nothing was written: the lines written and not
\* yet scanned, whether handleConnection closed it, and as history the number
\* of lines written, the messages written, and those the full channel refused
NewIpcConn == [in |-> <<>>, closed |-> FALSE, n |-> 0, wrote |-> <<>>, full |-> <<>>]
\* the threads that call Write on the tunnel's MemoryTUN
TunWriters == {"w1", "w2"}
\* NewMemoryTUN (tunnel.go): the flag `closed`, the channel outbound and
\* whether it is closed; then each thread's place in Write and what its last
\* Write returned, whether a thread died of a runtime panic, and as history
\* the number of Writes started
NewMemoryTUN ==
    [closed |-> FALSE, outbound |-> <<>>, chClosed |-> FALSE,
     pc |-> [t \in TunWriters |-> "idle"], pkt |-> [t \in TunWriters |-> 0],
     ret |-> [t \in TunWriters |-> Nil], panicked |-> FALSE, writes |-> 0]

\* the stack after construction but for its counter, and the other objects
InitRest ==
    /\ connections = {}
    /\ conns = [i \in ConnIDs |-> NoConn]
    /\ listeningSockets = [k \in AddrKeys |-> 0]
    /\ listeners = <<>>
    /\ outgoingPackets = <<>>
    /\ mu = "free"
    /\ thr = [t \in Threads |-> Idle]
    /\ handler = [i \in ConnIDs |-> NoHandler]
    /\ panicked = "no"
    /\ sent = [i \in ConnIDs |-> <<>>]
    /\ emitted = [i \in ConnIDs |-> <<>>]
    /\ delivered = [i \in ConnIDs |-> <<>>]
    /\ received = [i \in ConnIDs |-> <<>>]
    /\ dropped = [i \in ConnIDs |-> 0]
    /\ closedIds = {}
    /\ peerSeq = 0
    /\ calls = 0
    /\ stopChan = FALSE
    /\ tunInbound = <<>>
    /\ tunOutbound = <<>>
    /\ tunClosed = FALSE
    /\ deviceClosed = FALSE
    /\ pump = [in |-> "off", out |-> "off", pkt |-> NoPacket]
    /\ stopper = "idle"
    /\ call = NoCall
    /\ ctxDone = FALSE
    /\ msgChan = <<>>
    /\ msgClosed = FALSE
    /\ pfListeners = <<>>
    /\ pfOpen = {}
    /\ pfRun = "select"
    /\ pfBinds = <<>>
    /\ pfSent = 0
    /\ relay = NoRelay
    /\ ipc = [conns |-> [c \in IpcConns |-> NewIpcConn], queued |-> <<>>]
    /\ fdMappings = [fd \in FdBase..(FdLimit - 1) |-> 0]
    /\ nextFakeFd = FdBase
    /\ sockOut = <<>>
    /\ sockIn = <<>>
    /\ ccsNext = 1
    /\ shimThr = [t \in ShimThreads |-> ShimIdle]
    /\ live = {}
    /\ shimCalls = 0
    /\ mtun = NewMemoryTUN

Init == nextConnID = 0 /\ InitRest

(***************************************************************************)
(* Packets the stack builds.                                               *)
(***************************************************************************)
\* createTCPPacket: IPv4 + TCP header from the connection's endpoints, the flag
\* byte, then the data
createTCPPacket(conn, data, syn, ack, fin) ==
    [version |-> 4, proto |-> 6, src |-> String(conn.LocalAddr),
     dst |-> String(conn.RemoteAddr),
     flags |-> (IF syn THEN {"SYN"} ELSE {}) \cup (IF ack THEN {"ACK"} ELSE {})
               \cup (IF fin THEN {"FIN"} ELSE {}),
     data |-> data]

\* createUDPPacket: IPv4 + UDP header from the connection's endpoints, then the data
createUDPPacket(conn, data) ==
    [version |-> 4, proto |-> 17, src |-> String(conn.LocalAddr),
     dst |-> String(conn.RemoteAddr), flags |-> {}, data |-> data]

\* mutant: a full channel is taken to have room for one more
HasRoomOneMore(q, cap) == Len(q) <= cap

\* a send on a buffered channel that has room
HasRoom(q, cap) == Len(q) < cap

(***************************************************************************)
(* The operations of VirtualNetworkStack, called by thread t.              *)
(***************************************************************************)
\* the state CreateConnection leaves: the counter advanced, the new object in
\* the table, its handleConnectionPackets goroutine started
CreateConnectionEffect(connType) ==
    /\ nextConnID' = nextConnID + 1
    /\ connections' = connections \cup {nextConnID + 1}
    /\ handler' = [handler EXCEPT ![nextConnID + 1] = [NoHandler EXCEPT !.pc = "range"]]

CreateConnection(t, connType) ==
    /\ Ready(t) /\ mu = "free"
    /\ nextConnID < MaxConn
    /\ CreateConnectionEffect(connType)
    /\ conns' = [conns EXCEPT ![nextConnID + 1] = NewConn(connType)]
    /\ thr' = [thr EXCEPT ![t] = Done("CreateConnection", nextConnID + 1, "ok")]
    /\ UNCHANGED <<listeningSockets, listeners, outgoingPackets, mu, panicked,
                   histVars, wgVars>>

\* BindConnection's write under the lock
BindEffect(connID, addr) ==
    conns' = [conns EXCEPT ![connID].LocalAddr = addr]

BindConnection(t, connID, addr) ==
    /\ Ready(t) /\ mu = "free"
    /\ IF connID \notin connections
       THEN /\ thr' = [thr EXCEPT ![t] = Done("BindConnection", connID, "ErrNotFound")]
            /\ UNCHANGED conns
       ELSE /\ addr.net = conns[connID].Type
            /\ BindEffect(connID, addr)
            /\ thr' = [thr EXCEPT ![t] = [Done("BindConnection", connID, "ok") EXCEPT
                                             !.addr = addr]]
    /\ UNCHANGED <<nextConnID, connections, listeningSockets, listeners,
                   outgoingPackets, mu, handler, panicked, histVars, wgVars>>

\* ListenConnection's writes under the lock: a new listener object stored under
\* the string of the local address, the state set
ListenEffect(connID) ==
    /\ listeners' = Append(listeners, NewListener(conns[connID]))
    /\ listeningSockets' = [listeningSockets EXCEPT
           ![String(conns[connID].LocalAddr)] = Len(listeners) + 1]
    /\ conns' = [conns EXCEPT ![connID].State = "listening"]

ListenConnection(t, connID) ==
    /\ Ready(t) /\ mu = "free"
    /\ IF connID \notin connections
       THEN /\ thr' = [thr EXCEPT ![t] = Done("ListenConnection", connID, "ErrNotFound")]
            /\ UNCHANGED <<conns, listeners, listeningSockets>>
       ELSE IF conns[connID].LocalAddr = NilAddr
       THEN /\ thr' = [thr EXCEPT ![t] = Done("ListenConnection", connID, "ErrNotBound")]
            /\ UNCHANGED <<conns, listeners, listeningSockets>>
       ELSE /\ Len(listeners) < MaxListeners
            /\ ListenEffect(connID)
            /\ thr' = [thr EXCEPT ![t] = Done("ListenConnection", connID, "ok")]
    /\ UNCHANGED <<nextConnID, connections, outgoingPackets, mu, handler, panicked,
                   histVars, wgVars>>

\* ConnectConnection, first step: the lookup under the lock
ConnectLookup(t, connID, remoteAddr) ==
    /\ Ready(t) /\ mu = "free"
    /\ IF connID \notin connections
       THEN thr' = [thr EXCEPT ![t] = Done("ConnectConnection", connID, "ErrNotFound")]
       ELSE /\ remoteAddr.net = conns[connID].Type
            /\ thr' = [thr EXCEPT ![t] =
                   [Call("ConnectConnection", "assign", connID) EXCEPT !.addr = remoteAddr]]
    /\ UNCHANGED <<vnsVars, histVars, wgVars>>

\* mutant: the id is not reduced
EphemeralPortNoMod(connID) == 30000 + connID

\* the ephemeral port ConnectConnection gives an unbound connection
EphemeralPort(connID) == 30000 + (connID % 30000)

\* mutant: the state is left as it was
ConnectAssignKeepsState(conn, connID, remoteAddr) ==
    [conn EXCEPT !.LocalAddr = IF conn.LocalAddr = NilAddr
                               THEN MkAddr(conn.Type, localIP, EphemeralPort(connID))
                               ELSE conn.LocalAddr,
                 !.RemoteAddr = remoteAddr]

\* ConnectConnection's writes to the connection, made without the lock
ConnectAssign(conn, connID, remoteAddr) ==
    [conn EXCEPT !.LocalAddr = IF conn.LocalAddr = NilAddr
                               THEN MkAddr(conn.Type, localIP, EphemeralPort(connID))
                               ELSE conn.LocalAddr,
                 !.RemoteAddr = remoteAddr,
                 !.State = "connected"]

\* ConnectConnection, second step: the endpoints and the state
ConnectSet(t) ==
    /\ At(t, "ConnectConnection", "assign")
    /\ conns' = [conns EXCEPT ![thr[t].id] = ConnectAssign(@, thr[t].id, thr[t].addr)]
    /\ thr' = [thr EXCEPT ![t] =
           IF conns[thr[t].id].Type = "tcp"
           THEN [@ EXCEPT !.step = "syn"]
           ELSE Done("ConnectConnection", thr[t].id, "ok")]
    /\ UNCHANGED <<nextConnID, connections, listeningSockets, listeners,
                   outgoingPackets, mu, handler, panicked, histVars, wgVars>>

\* ConnectConnection, last step of a TCP connection: the SYN is sent on
\* outgoingPackets, which waits while the channel is full
ConnectSendSyn(t) ==
    /\ At(t, "ConnectConnection", "syn")
    /\ HasRoom(outgoingPackets, OutCap)
    /\ outgoingPackets' = Append(outgoingPackets,
           createTCPPacket(conns[thr[t].id], NoData, TRUE, FALSE, FALSE))
    /\ thr' = [thr EXCEPT ![t] = Done("ConnectConnection", thr[t].id, "ok")]
    /\ UNCHANGED <<nextConnID, connections, conns, listeningSockets, listeners,
                   mu, handler, panicked, histVars, wgVars>>

\* SendData, first step: the lookup under the read lock
SendLookup(t, connID, data) ==
    /\ Ready(t) /\ mu = "free"
    /\ data = Len(sent[connID]) + 1
    /\ thr' = [thr EXCEPT ![t] =
           IF connID \notin connections
           THEN Done("SendData", connID, "ErrNotFound")
           ELSE [Call("SendData", "queue", connID) EXCEPT !.data = data]]
    /\ UNCHANGED <<vnsVars, histVars, wgVars>>

\* SendData's select: queue the data if OutgoingData has room
SendEnqueue(q, data) == Append(q, data)

\* SendData, second step: the state check and the select on OutgoingData
SendQueue(t) ==
    /\ At(t, "SendData", "queue")
    /\ LET id == thr[t].id
           conn == conns[id]
       IN  IF conn.State # "connected"
           THEN /\ thr' = [thr EXCEPT ![t] = Done("SendData", id, "ErrNotConnected")]
                /\ UNCHANGED <<conns, panicked, sent>>
           ELSE IF conn.chClosed
           THEN \* send on a closed channel
                /\ panicked' = "SendData"
                /\ UNCHANGED <<conns, thr, sent>>
           ELSE IF HasRoom(conn.OutgoingData, ChanCap)
           THEN /\ conns' = [conns EXCEPT ![id].OutgoingData = SendEnqueue(@, thr[t].data)]
                /\ sent' = [sent EXCEPT ![id] = Append(@, thr[t].data)]
                /\ thr' = [thr EXCEPT ![t] = Done("SendData", id, "ok")]
                /\ UNCHANGED panicked
           ELSE /\ thr' = [thr EXCEPT ![t] = Done("SendData", id, "ErrBufferFull")]
                /\ UNCHANGED <<conns, panicked, sent>>
    /\ UNCHANGED <<nextConnID, connections, listeningSockets, listeners,
                   outgoingPackets, mu, handler, emitted, delivered, received,
                   dropped, closedIds, peerSeq, wgVars>>

\* ReceiveData, first step: the lookup under the read lock
ReceiveLookup(t, connID) ==
    /\ Ready(t) /\ mu = "free"
    /\ thr' = [thr EXCEPT ![t] =
           IF connID \notin connections
           THEN Done("ReceiveData", connID, "ErrNotFound")
           ELSE Call("ReceiveData", "dequeue", connID)]
    /\ UNCHANGED <<vnsVars, histVars, wgVars>>

\* mutant: the payload is read and left in the queue
ReceiveRestKeeps(q) == q

\* ReceiveData's select: what it takes from IncomingData, and what it leaves
ReceiveTake(q) == Head(q)
ReceiveRest(q) == Tail(q)

\* ReceiveData, second step: the select on IncomingData
ReceiveDequeue(t) ==
    /\ At(t, "ReceiveData", "dequeue")
    /\ LET id == thr[t].id
           conn == conns[id]
       IN  IF conn.IncomingData # <<>>
           THEN /\ conns' = [conns EXCEPT ![id].IncomingData = ReceiveRest(@)]
                /\ received' = [received EXCEPT ![id] = Append(@, ReceiveTake(conn.IncomingData))]
                /\ thr' = [thr EXCEPT ![t] = [Done("ReceiveData", id, "ok")
                                               EXCEPT !.data = ReceiveTake(conn.IncomingData)]]
           ELSE IF conn.chClosed
           THEN \* a receive from a closed, drained channel yields nil at once
                /\ thr' = [thr EXCEPT ![t] = Done("ReceiveData", id, "ok")]
                /\ UNCHANGED <<conns, received>>
           ELSE /\ thr' = [thr EXCEPT ![t] = Done("ReceiveData", id, "ErrNoData")]
                /\ UNCHANGED <<conns, received>>
    /\ UNCHANGED <<nextConnID, connections, listeningSockets, listeners,
                   outgoingPackets, mu, handler, panicked, sent, emitted, delivered,
                   dropped, closedIds, peerSeq, wgVars>>

\* AcceptConnection, first step: the listener lookup under the read lock
AcceptLookup(t, listenAddr) ==
    /\ Ready(t) /\ mu = "free"
    /\ thr' = [thr EXCEPT ![t] =
           IF listeningSockets[String(listenAddr)] = 0
           THEN Done("AcceptConnection", 0, "ErrNoListener")
           ELSE Call("AcceptConnection", "dequeue", listeningSockets[String(listenAddr)])]
    /\ UNCHANGED <<vnsVars, histVars, wgVars>>

\* mutant: the select takes the default branch whatever is queued
AcceptDequeueNever(t) ==
    /\ At(t, "AcceptConnection", "dequeue")
    /\ thr' = [thr EXCEPT ![t] = Done("AcceptConnection", 0, "ErrNoPending")]
    /\ UNCHANGED <<nextConnID, connections, conns, listeningSockets, listeners,
                   outgoingPackets, mu, handler, panicked, histVars, wgVars>>

\* AcceptConnection, second step: the select on the listener's AcceptQueue;
\* the thread's id becomes the accepted connection
AcceptDequeue(t) ==
    /\ At(t, "AcceptConnection", "dequeue")
    /\ LET l == thr[t].id
       IN  IF listeners[l].AcceptQueue # <<>>
           THEN /\ listeners' = [listeners EXCEPT ![l].AcceptQueue = Tail(@)]
                /\ thr' = [thr EXCEPT ![t] =
                       Done("AcceptConnection", Head(listeners[l].AcceptQueue), "ok")]
           ELSE /\ thr' = [thr EXCEPT ![t] = Done("AcceptConnection", 0, "ErrNoPending")]
                /\ UNCHANGED listeners
    /\ UNCHANGED <<nextConnID, connections, conns, listeningSockets, outgoingPackets,
                   mu, handler, panicked, histVars, wgVars>>

\* mutant: the table entry is not deleted
CloseEffectKeepsEntry(connID) ==
    /\ conns' = [conns EXCEPT ![connID].chClosed = TRUE]
    /\ connections' = connections
    /\ listeningSockets' =
           IF conns[connID].State = "listening" /\ conns[connID].LocalAddr # NilAddr
           THEN [listeningSockets EXCEPT ![String(conns[connID].LocalAddr)] = 0]
           ELSE listeningSockets
    /\ closedIds' = closedIds \cup {connID}

\* CloseConnection after the FIN: both channels closed, the table entry deleted,
\* the listener entry deleted if the connection was listening
CloseEffect(connID) ==
    /\ conns' = [conns EXCEPT ![connID].chClosed = TRUE]
    /\ connections' = connections \ {connID}
    /\ listeningSockets' =
           IF conns[connID].State = "listening" /\ conns[connID].LocalAddr # NilAddr
           THEN [listeningSockets EXCEPT ![String(conns[connID].LocalAddr)] = 0]
           ELSE listeningSockets
    /\ closedIds' = closedIds \cup {connID}

\* mutant: a FIN for every TCP connection
NeedsFinAnyState(conn) == conn.Type = "tcp"

\* CloseConnection sends a FIN for a connected TCP connection
NeedsFin(conn) == conn.Type = "tcp" /\ conn.State = "connected"

\* CloseConnection: everything under the lock.  With a FIN to send and
\* outgoingPackets full, the thread waits in the send, holding the lock.
CloseConnection(t, connID) ==
    /\ Ready(t) /\ mu = "free"
    /\ IF connID \notin connections
       THEN /\ thr' = [thr EXCEPT ![t] = Done("CloseConnection", connID, "ErrNotFound")]
            /\ UNCHANGED <<connections, conns, listeningSockets, outgoingPackets, mu,
                           closedIds>>
       ELSE IF NeedsFin(conns[connID]) /\ ~HasRoom(outgoingPackets, OutCap)
       THEN /\ mu' = t
            /\ thr' = [thr EXCEPT ![t] = [Call("CloseConnection", "fin", connID) EXCEPT
                   !.pkt = createTCPPacket(conns[connID], NoData, FALSE, FALSE, TRUE)]]
            /\ UNCHANGED <<connections, conns, listeningSockets, outgoingPackets,
                           closedIds>>
       ELSE /\ outgoingPackets' =
                   IF NeedsFin(conns[connID])
                   THEN Append(outgoingPackets,
                               createTCPPacket(conns[connID], NoData, FALSE, FALSE, TRUE))
                   ELSE outgoingPackets
            /\ CloseEffect(connID)
            /\ thr' = [thr EXCEPT ![t] = Done("CloseConnection", connID, "ok")]
            /\ UNCHANGED mu
    /\ UNCHANGED <<nextConnID, listeners, handler, panicked, sent, emitted, delivered,
                   received, dropped, peerSeq, wgVars>>

\* CloseConnection resumes when outgoingPackets has room for the FIN
CloseSendFin(t) ==
    /\ At(t, "CloseConnection", "fin") /\ mu = t
    /\ HasRoom(outgoingPackets, OutCap)
    /\ outgoingPackets' = Append(outgoingPackets, thr[t].pkt)
    /\ CloseEffect(thr[t].id)
    /\ mu' = "free"
    /\ thr' = [thr EXCEPT ![t] = Done("CloseConnection", thr[t].id, "ok")]
    /\ UNCHANGED <<nextConnID, listeners, handler, panicked, sent, emitted, delivered,
                   received, dropped, peerSeq, wgVars>>

(***************************************************************************)
(* handleConnectionPackets: one goroutine per connection.                  *)
(***************************************************************************)
\* mutant: the packet is built without the payload
DataPacketNoData(conn, data) ==
    IF conn.Type = "tcp"
    THEN createTCPPacket(conn, NoData, FALSE, TRUE, FALSE)
    ELSE createUDPPacket(conn, NoData)

\* the packet the goroutine builds for one payload
DataPacket(conn, data) ==
    IF conn.Type = "tcp"
    THEN createTCPPacket(conn, data, FALSE, TRUE, FALSE)
    ELSE createUDPPacket(conn, data)

\* the payload `range conn.OutgoingData` yields next
HandlerTake(q) == Head(q)

\* the range loop takes the next payload and builds its packet; the loop ends
\* when the channel is closed and drained
HandlerRange(i) ==
    /\ Running /\ handler[i].pc = "range"
    /\ IF conns[i].OutgoingData # <<>>
       THEN /\ conns' = [conns EXCEPT ![i].OutgoingData = Tail(@)]
            /\ handler' = [handler EXCEPT ![i] =
                   [pc |-> "send",
                    pkt |-> DataPacket(conns[i], HandlerTake(conns[i].OutgoingData))]]
       ELSE /\ conns[i].chClosed
            /\ handler' = [handler EXCEPT ![i] = [NoHandler EXCEPT !.pc = "done"]]
            /\ UNCHANGED conns
    /\ UNCHANGED <<nextConnID, connections, listeningSockets, listeners,
                   outgoingPackets, mu, panicked, thr, histVars, wgVars>>

\* the packet is sent on outgoingPackets, which waits while the channel is full
HandlerSend(i) ==
    /\ Running /\ handler[i].pc = "send"
    /\ HasRoom(outgoingPackets, OutCap)
    /\ outgoingPackets' = Append(outgoingPackets, handler[i].pkt)
    /\ emitted' = [emitted EXCEPT ![i] = Append(@, handler[i].pkt.data)]
    /\ handler' = [handler EXCEPT ![i] = [NoHandler EXCEPT !.pc = "range"]]
    /\ UNCHANGED <<nextConnID, connections, conns, listeningSockets, listeners,
                   mu, panicked, thr, sent, delivered, received, dropped, closedIds,
                   peerSeq, wgVars>>

(***************************************************************************)
(* DeliverIncomingPacket and its handlers, run by thread t.                *)
(***************************************************************************)
\* the packets a peer sends: the parsed form of the bytes.  version is the IP
\* version nibble, data the bytes after the transport header (NoData: none).
InPacket(version, proto, src, dst, flags, data) ==
    [version |-> version, proto |-> proto, src |-> src, dst |-> dst,
     flags |-> flags, data |-> data]
PeerKeys == {<<ip, port>> : ip \in RemoteIPs, port \in RemotePorts}
LocalKeys == {<<ip, port>> : ip \in LocalIPs, port \in LocalPorts}
InPackets ==
    {InPacket(4, 6, s, d, {"SYN"}, NoData) : s \in PeerKeys, d \in LocalKeys}
    \cup {InPacket(4, 6, s, d, {"ACK"}, x) : s \in PeerKeys, d \in LocalKeys,
                                             x \in Payloads \cup {NoData}}
    \cup {InPacket(4, 17, s, d, {}, x) : s \in PeerKeys, d \in LocalKeys, x \in Payloads}
    \cup {InPacket(6, 6, s, d, {}, NoData) : s \in PeerKeys, d \in LocalKeys}
    \cup {InPacket(4, 1, s, d, {}, NoData) : s \in PeerKeys, d \in LocalKeys}

\* the call: the thread holds the packet
DeliverCall(t, packet) ==
    /\ Ready(t)
    /\ packet.data # NoData => packet.data = peerSeq + 1
    /\ "SYN" \in packet.flags => nextConnID < MaxConn
    /\ peerSeq' = IF packet.data # NoData THEN peerSeq + 1 ELSE peerSeq
    /\ thr' = [thr EXCEPT ![t] = [Call("DeliverIncomingPacket", "parse", 0) EXCEPT
                                     !.pkt = packet]]

\* handleIncomingTCP's match of an existing connection
MatchTCP(c, packet) ==
    /\ c.Type = "tcp"
    /\ c.LocalAddr # NilAddr /\ String(c.LocalAddr) = packet.dst
    /\ c.RemoteAddr # NilAddr /\ String(c.RemoteAddr) = packet.src

\* handleIncomingUDP's match of a connection
MatchUDP(c, packet) ==
    /\ c.Type = "udp"
    /\ c.LocalAddr # NilAddr /\ String(c.LocalAddr) = packet.dst

\* DeliverIncomingPacket's header checks, then the first locked section of the
\* handler: the listener lookup of handleIncomingTCP, the connection search of
\* handleIncomingUDP (the map is ranged over in no fixed order)
DeliverParse(t) ==
    /\ At(t, "DeliverIncomingPacket", "parse")
    /\ LET packet == thr[t].pkt
       IN  IF packet.version # 4
           THEN thr' = [thr EXCEPT ![t] = Done("DeliverIncomingPacket", 0, "ErrNotIPv4")]
           ELSE IF packet.proto = 6
           THEN /\ mu = "free"
                /\ thr' = [thr EXCEPT ![t] =
                       IF listeningSockets[packet.dst] # 0 /\ "SYN" \in packet.flags
                       THEN [@ EXCEPT !.step = "tcp_syn", !.id = listeningSockets[packet.dst]]
                       ELSE [@ EXCEPT !.step = "tcp_find"]]
           ELSE IF packet.proto = 17
           THEN /\ mu = "free"
                /\ IF \E c \in connections : MatchUDP(conns[c], packet)
                   THEN \E c \in connections :
                            /\ MatchUDP(conns[c], packet)
                            /\ thr' = [thr EXCEPT ![t] = [@ EXCEPT !.step = "udp_enqueue",
                                                                    !.id = c]]
                   ELSE thr' = [thr EXCEPT ![t] =
                            Done("DeliverIncomingPacket", 0, "ErrNoConnection")]
           ELSE thr' = [thr EXCEPT ![t] =
                    Done("DeliverIncomingPacket", 0, "ErrUnsupportedProtocol")]
    /\ UNCHANGED <<vnsVars, histVars, wgVars>>

\* the connection handleIncomingTCP makes of a SYN
SynConn(packet) ==
    [NewConn("tcp") EXCEPT !.LocalAddr = TCPAddr(packet.dst[1], packet.dst[2]),
                           !.RemoteAddr = TCPAddr(packet.src[1], packet.src[2]),
                           !.State = "connected"]

\* the select on the listener's AcceptQueue: queued if there is room
AcceptEnqueue(q, connID) == IF HasRoom(q, AcceptCap) THEN Append(q, connID) ELSE q

\* handleIncomingTCP, SYN for a listener: CreateConnection, the endpoints, the
\* accept queue
DeliverTCPSyn(t) ==
    /\ At(t, "DeliverIncomingPacket", "tcp_syn") /\ mu = "free"
    /\ nextConnID < MaxConn
    /\ CreateConnectionEffect("tcp")
    /\ conns' = [conns EXCEPT ![nextConnID + 1] = SynConn(thr[t].pkt)]
    /\ listeners' = [listeners EXCEPT ![thr[t].id].AcceptQueue =
                        AcceptEnqueue(@, nextConnID + 1)]
    /\ thr' = [thr EXCEPT ![t] = [@ EXCEPT !.step = "tcp_synack", !.id = nextConnID + 1]]
    /\ UNCHANGED <<listeningSockets, outgoingPackets, mu, panicked, histVars, wgVars>>

\* handleIncomingTCP, SYN for a listener: the SYN-ACK is sent on
\* outgoingPackets, which waits while the channel is full
DeliverTCPSynAck(t) ==
    /\ At(t, "DeliverIncomingPacket", "tcp_synack")
    /\ HasRoom(outgoingPackets, OutCap)
    /\ outgoingPackets' = Append(outgoingPackets,
           createTCPPacket(conns[thr[t].id], NoData, TRUE, TRUE, FALSE))
    /\ thr' = [thr EXCEPT ![t] = Done("DeliverIncomingPacket", thr[t].id, "ok")]
    /\ UNCHANGED <<nextConnID, connections, conns, listeningSockets, listeners,
                   mu, handler, panicked, histVars, wgVars>>

\* handleIncomingTCP: the search for an existing connection under the read
\* lock (the map is ranged over in no fixed order)
DeliverTCPFind(t) ==
    /\ At(t, "DeliverIncomingPacket", "tcp_find") /\ mu = "free"
    /\ LET packet == thr[t].pkt
       IN  IF \E c \in connections : MatchTCP(conns[c], packet)
           THEN \E c \in connections :
                    /\ MatchTCP(conns[c], packet)
                    /\ thr' = [thr EXCEPT ![t] =
                           IF packet.data = NoData
                           THEN Done("DeliverIncomingPacket", c, "ok")
                           ELSE [@ EXCEPT !.step = "tcp_enqueue", !.id = c]]
           ELSE thr' = [thr EXCEPT ![t] =
                    Done("DeliverIncomingPacket", 0, "ErrNoConnection")]
    /\ UNCHANGED <<vnsVars, histVars, wgVars>>

\* mutant: the payload is queued whether or not there is room
DeliverEnqueueAlways(q, data) == Append(q, data)

\* the select on IncomingData: queued if there is room
DeliverEnqueue(q, data) == IF HasRoom(q, ChanCap) THEN Append(q, data) ELSE q

\* the select on the connection's IncomingData, without the lock
DeliverQueueEffect(t) ==
    LET id == thr[t].id
        data == thr[t].pkt.data
    IN  IF conns[id].chClosed
        THEN \* send on a closed channel
             /\ panicked' = "DeliverIncomingPacket"
             /\ UNCHANGED <<thr, delivered, dropped>>
        ELSE /\ thr' = [thr EXCEPT ![t] = Done("DeliverIncomingPacket", id, "ok")]
             /\ delivered' = [delivered EXCEPT ![id] = Append(@, data)]
             /\ dropped' = IF HasRoom(conns[id].IncomingData, ChanCap)
                           THEN dropped
                           ELSE [dropped EXCEPT ![id] = @ + 1]
             /\ UNCHANGED panicked

\* handleIncomingTCP, last step: the data is queued inbound
DeliverTCPEnqueue(t) ==
    /\ At(t, "DeliverIncomingPacket", "tcp_enqueue")
    /\ DeliverQueueEffect(t)
    /\ conns' = IF conns[thr[t].id].chClosed THEN conns
                ELSE [conns EXCEPT ![thr[t].id].IncomingData = DeliverEnqueue(@, thr[t].pkt.data)]
    /\ UNCHANGED <<nextConnID, connections, listeningSockets, listeners,
                   outgoingPackets, mu, handler, sent, emitted, received, closedIds,
                   peerSeq, wgVars>>

\* handleIncomingUDP, last step: the remote address is updated and the data
\* queued inbound
DeliverUDPEnqueue(t) ==
    /\ At(t, "DeliverIncomingPacket", "udp_enqueue")
    /\ DeliverQueueEffect(t)
    /\ conns' = [conns EXCEPT
           ![thr[t].id].RemoteAddr = UDPAddr(thr[t].pkt.src[1], thr[t].pkt.src[2]),
           ![thr[t].id].IncomingData =
               IF conns[thr[t].id].chClosed THEN @ ELSE DeliverEnqueue(@, thr[t].pkt.data)]
    /\ UNCHANGED <<nextConnID, connections, listeningSockets, listeners,
                   outgoingPackets, mu, handler, sent, emitted, received, closedIds,
                   peerSeq, wgVars>>

\* a reader of OutgoingPackets() takes the next packet
OutgoingRecv ==
    /\ Running
    /\ outgoingPackets # <<>>
    /\ outgoingPackets' = Tail(outgoingPackets)

(***************************************************************************)
(* The stack with one calling thread, the delivering thread, the           *)
(* connections' goroutines and a reader of the outgoing packets.           *)
(***************************************************************************)
AnyAddrs == BindAddrs("tcp") \cup BindAddrs("udp")
AnyRemotes == RemoteAddrs("tcp") \cup RemoteAddrs("udp")

\* an operation is started: the callers and the peer start MaxCalls of them
Begin(A) == calls < MaxCalls /\ calls' = calls + 1 /\ A /\ UNCHANGED <<call, objVars>>
\* a thread or goroutine goes on with what it is in
Step(A) == A /\ UNCHANGED <<calls, call, objVars>>

\* the peer's next packet is handed to DeliverIncomingPacket
Deliver(t) ==
    /\ \E packet \in InPackets : DeliverCall(t, packet)
    /\ UNCHANGED <<vnsVars, sent, emitted, delivered, received, dropped, closedIds,
                   wgVars>>

\* a reader of OutgoingPackets() takes a packet
Drain ==
    /\ OutgoingRecv
    /\ UNCHANGED <<nextConnID, connections, conns, listeningSockets, listeners,
                   mu, thr, handler, panicked, histVars, wgVars>>

\* the operations are started on ids that were handed out
Next ==
    \/ \E t \in Apps, connType \in Types : Begin(CreateConnection(t, connType))
    \/ \E t \in Apps, connID \in Issued, addr \in AnyAddrs :
           Begin(BindConnection(t, connID, addr))
    \/ \E t \in Apps, connID \in Issued : Begin(ListenConnection(t, connID))
    \/ \E t \in Apps, connID \in Issued, addr \in AnyRemotes :
           Begin(ConnectLookup(t, connID, addr))
    \/ \E t \in Apps : Step(ConnectSet(t))
    \/ \E t \in Apps : Step(ConnectSendSyn(t))
    \/ \E t \in Apps, connID \in Issued, data \in Payloads :
           Begin(SendLookup(t, connID, data))
    \/ \E t \in Apps : Step(SendQueue(t))
    \/ \E t \in Apps, connID \in Issued : Begin(ReceiveLookup(t, connID))
    \/ \E t \in Apps : Step(ReceiveDequeue(t))
    \/ \E t \in Apps, addr \in AnyAddrs : Begin(AcceptLookup(t, addr))
    \/ \E t \in Apps : Step(AcceptDequeue(t))
    \/ \E t \in Apps, connID \in Issued : Begin(CloseConnection(t, connID))
    \/ \E t \in Apps : Step(CloseSendFin(t))
    \/ Begin(Deliver("net"))
    \/ Step(DeliverParse("net"))
    \/ Step(DeliverTCPSyn("net"))
    \/ Step(DeliverTCPSynAck("net"))
    \/ Step(DeliverTCPFind("net"))
    \/ Step(DeliverTCPEnqueue("net"))
    \/ Step(DeliverUDPEnqueue("net"))
    \/ \E i \in ConnIDs : Step(HandlerRange(i))
    \/ \E i \in ConnIDs : Step(HandlerSend(i))
    \/ Step(Drain)

Spec == Init /\ [][Next]_vars

(***************************************************************************)
(* WireGuardProxy: Start, Stop and the two routing goroutines over the     *)
(* MemoryTUN, with the WireGuard device as the peer of the TUN.            *)
(***************************************************************************)
\* the largest number of operations the callers and the device start while
\* the proxy runs
MaxProxyCalls == 4

\* the payload-carrying packets, and the SYNs, waiting in a queue of packets
PendingData(q) == Cardinality({n \in 1..Len(q) : q[n].data # NoData})
PendingSyn(q) == Cardinality({n \in 1..Len(q) : "SYN" \in q[n].flags})
\* the connections the SYNs under way will need
Reserved ==
    PendingSyn(tunInbound)
    + (IF thr["net"].step \in {"parse", "tcp_syn"} /\ "SYN" \in thr["net"].pkt.flags
       THEN 1 ELSE 0)

\* WireGuardProxy.Start: the device is up, both goroutines run
StartProxy ==
    /\ stopper = "idle"
    /\ stopper' = "started"
    /\ pump' = [pump EXCEPT !.in = "select", !.out = "select"]
    /\ UNCHANGED <<vnsVars, thr, histVars, stopChan, tunInbound, tunOutbound,
                   tunClosed, deviceClosed>>

\* WireGuardProxy.Stop, first statement: close(w.stopChan); then w.wg.Wait()
StopClose ==
    /\ Running /\ stopper = "started"
    /\ stopChan' = TRUE
    /\ stopper' = "wait"
    /\ UNCHANGED <<vnsVars, thr, histVars, tunInbound, tunOutbound, tunClosed,
                   deviceClosed, pump>>

\* WireGuardProxy.Stop after wg.Wait() has returned: both goroutines called
\* wg.Done(); the device, the socket and the memory TUN are closed
StopReturn ==
    /\ Running /\ stopper = "wait"
    /\ pump.in = "exit" /\ pump.out = "exit"
    /\ deviceClosed' = TRUE
    /\ tunClosed' = TRUE
    /\ stopper' = "done"
    /\ UNCHANGED <<vnsVars, thr, histVars, stopChan, tunInbound, tunOutbound, pump>>

\* routeIncomingPackets at the top of its loop (after Start, or back from
\* DeliverIncomingPacket): the select takes stopChan if it is closed, else the
\* default branch calls ReadOutbound
routeIncomingSelect ==
    /\ Running
    /\ \/ pump.in = "select"
       \/ pump.in = "deliver" /\ thr["net"].step = "done"
    /\ pump' = [pump EXCEPT !.in = IF stopChan THEN "exit" ELSE "read"]
    /\ UNCHANGED <<vnsVars, thr, histVars, stopChan, tunInbound, tunOutbound,
                   tunClosed, deviceClosed, stopper>>

\* MemoryTUN.ReadOutbound inside routeIncomingPackets: it waits for a packet on
\* inbound or for the TUN to be closed, and for nothing else.  A packet goes
\* to DeliverIncomingPacket; EOF goes back to the top of the loop.
ReadOutbound ==
    /\ Running /\ pump.in = "read"
    /\ \/ /\ tunInbound # <<>>
          /\ DeliverCall("net", Head(tunInbound))
          /\ tunInbound' = Tail(tunInbound)
          /\ pump' = [pump EXCEPT !.in = "deliver"]
       \/ /\ tunClosed
          /\ pump' = [pump EXCEPT !.in = "select"]
          /\ UNCHANGED <<thr, peerSeq, tunInbound>>
    /\ UNCHANGED <<vnsVars, sent, emitted, delivered, received, dropped, closedIds,
                   stopChan, tunOutbound, tunClosed, deviceClosed, stopper>>

\* routeOutgoingPackets' select: stopChan if it is closed, a packet of
\* OutgoingPackets() if there is one, either if both are ready
routeOutgoingSelect ==
    /\ pump.out = "select"
    /\ \/ /\ Running /\ stopChan
          /\ pump' = [pump EXCEPT !.out = "exit"]
          /\ UNCHANGED outgoingPackets
       \/ /\ OutgoingRecv
          /\ pump' = [pump EXCEPT !.out = "inject", !.pkt = Head(outgoingPackets)]
    /\ UNCHANGED <<nextConnID, connections, conns, listeningSockets, listeners, mu,
                   handler, panicked, thr, histVars, stopChan, tunInbound,
                   tunOutbound, tunClosed, deviceClosed, stopper>>

\* MemoryTUN.InjectInbound's select on outbound: queued if there is room
\* (dropped after the 100 ms with no room)
InjectEnqueue(q, packet) == IF HasRoom(q, TunCap) THEN Append(q, packet) ELSE q

\* MemoryTUN.InjectInbound inside routeOutgoingPackets: EOF if the TUN is
\* closed, else the packet is queued for the device or dropped
InjectInbound ==
    /\ Running /\ pump.out = "inject"
    /\ \/ tunClosed /\ UNCHANGED tunOutbound
       \/ tunOutbound' = InjectEnqueue(tunOutbound, pump.pkt)
    /\ pump' = [pump EXCEPT !.out = "select", !.pkt = NoPacket]
    /\ UNCHANGED <<vnsVars, thr, histVars, stopChan, tunInbound, tunClosed,
                   deviceClosed, stopper>>

\* mutant: the packet is queued whether or not there is room
WriteEnqueueAlways(q, packet) == Append(q, packet)

\* MemoryTUN.Write's select on inbound: queued if there is room, else dropped
WriteEnqueue(q, packet) == IF HasRoom(q, TunCap) THEN Append(q, packet) ELSE q

\* MemoryTUN.Write, called by the device with a decrypted packet: EOF if the
\* TUN is closed, else the packet is queued or dropped.  The peer numbers its
\* payloads.
Write(packet) ==
    /\ Running /\ stopper # "idle" /\ ~deviceClosed
    /\ packet.data # NoData => packet.data = peerSeq + PendingData(tunInbound) + 1
    /\ "SYN" \in packet.flags => nextConnID + Reserved < MaxConn
    /\ \/ tunClosed /\ UNCHANGED tunInbound
       \/ tunInbound' = WriteEnqueue(tunInbound, packet)
    /\ UNCHANGED <<vnsVars, thr, histVars, stopChan, tunOutbound, tunClosed,
                   deviceClosed, pump, stopper>>

\* MemoryTUN.Read, called by the device: it takes the next packet of outbound
Read ==
    /\ Running /\ stopper # "idle" /\ ~deviceClosed
    /\ tunOutbound # <<>>
    /\ tunOutbound' = Tail(tunOutbound)
    /\ UNCHANGED <<vnsVars, thr, histVars, calls, call, objVars, stopChan, tunInbound,
                   tunClosed, deviceClosed, pump, stopper>>

\* an operation is started by the wrapped program, which runs while the proxy
\* is started, or by the device
ProxyCall(A) == calls < MaxProxyCalls /\ calls' = calls + 1 /\ A /\ UNCHANGED <<call, objVars>>
AppCall(A) == stopper = "started" /\ ProxyCall(A)

\* the steps of the two routing goroutines and of the operations they call
RouteIncoming ==
    \/ Step(routeIncomingSelect)
    \/ Step(ReadOutbound)
    \/ Step(DeliverParse("net"))
    \/ Step(DeliverTCPSyn("net"))
    \/ Step(DeliverTCPSynAck("net"))
    \/ Step(DeliverTCPFind("net"))
    \/ Step(DeliverTCPEnqueue("net"))
    \/ Step(DeliverUDPEnqueue("net"))
RouteOutgoing ==
    \/ Step(routeOutgoingSelect)
    \/ Step(InjectInbound)

NextProxy ==
    \/ Step(StartProxy)
    \/ Step(StopClose)
    \/ Step(StopReturn)
    \/ Step(routeIncomingSelect)
    \/ Step(ReadOutbound)
    \/ Step(routeOutgoingSelect)
    \/ Step(InjectInbound)
    \/ \E packet \in InPackets : ProxyCall(Write(packet))
    \/ Read
    \/ \E t \in Apps, connType \in Types :
           nextConnID + Reserved < MaxConn /\ AppCall(CreateConnection(t, connType))
    \/ \E t \in Apps, connID \in Issued, addr \in AnyAddrs :
           AppCall(BindConnection(t, connID, addr))
    \/ \E t \in Apps, connID \in Issued : AppCall(ListenConnection(t, connID))
    \/ \E t \in Apps, connID \in Issued, addr \in AnyRemotes :
           AppCall(ConnectLookup(t, connID, addr))
    \/ \E t \in Apps : Step(ConnectSet(t))
    \/ \E t \in Apps : Step(ConnectSendSyn(t))
    \/ \E t \in Apps, connID \in Issued, data \in Payloads :
           AppCall(SendLookup(t, connID, data))
    \/ \E t \in Apps : Step(SendQueue(t))
    \/ \E t \in Apps, connID \in Issued : AppCall(ReceiveLookup(t, connID))
    \/ \E t \in Apps : Step(ReceiveDequeue(t))
    \/ \E t \in Apps, addr \in AnyAddrs : AppCall(AcceptLookup(t, addr))
    \/ \E t \in Apps : Step(AcceptDequeue(t))
    \/ \E t \in Apps, connID \in Issued : AppCall(CloseConnection(t, connID))
    \/ \E t \in Apps : Step(CloseSendFin(t))
    \/ Step(DeliverParse("net"))
    \/ Step(DeliverTCPSyn("net"))
    \/ Step(DeliverTCPSynAck("net"))
    \/ Step(DeliverTCPFind("net"))
    \/ Step(DeliverTCPEnqueue("net"))
    \/ Step(DeliverUDPEnqueue("net"))
    \/ \E i \in ConnIDs : Step(HandlerRange(i))
    \/ \E i \in ConnIDs : Step(HandlerSend(i))

\* the goroutines that are able to take a step take it: the two routing
\* goroutines, Stop once both have exited, the device's reader and the
\* connections' goroutines.  Nothing obliges the device to have a decrypted
\* packet, nor the wrapped program to call.
SpecProxy ==
    /\ Init /\ [][NextProxy]_vars
    /\ WF_vars(RouteIncoming)
    /\ WF_vars(RouteOutgoing)
    /\ WF_vars(Step(StopReturn))
    /\ WF_vars(Read)
    /\ WF_vars(\E i \in ConnIDs : Step(HandlerRange(i)) \/ Step(HandlerSend(i)))

(***************************************************************************)
(* ConnectConnection's assignment of the endpoints, taken alone, over      *)
(* connection ids up to the largest the counter reaches here.              *)
(***************************************************************************)
\* how far around 0, 30000 and 60000 the ids are taken
PortSpan == 12

\* the connection ids: near 0, near the multiples of 30000, and a large one
PortIDs ==
    (0..PortSpan) \cup ((30000 - PortSpan)..(30000 + PortSpan))
    \cup ((60000 - PortSpan)..(60000 + PortSpan)) \cup {2147483647}

\* the connections ConnectConnection is called on: new, or bound
PortConns ==
    {NewConn(type) : type \in Types}
    \cup {[NewConn(a.net) EXCEPT !.LocalAddr = a] : a \in AnyAddrs}

\* everything but the record of the last call
stackVars == <<vnsVars, thr, histVars, calls, wgVars, objVars>>

\* ConnectConnection's writes on connection conn with id connID
PortConnect(connID, conn, remoteAddr) ==
    /\ call' = [op |-> "ConnectConnection", id |-> connID, conn |-> conn,
                ret |-> ConnectAssign(conn, connID, remoteAddr)]
    /\ UNCHANGED stackVars

NextPort ==
    \E connID \in PortIDs, conn \in PortConns :
        \E remoteAddr \in RemoteAddrs(conn.Type) : PortConnect(connID, conn, remoteAddr)

SpecPort == Init /\ [][NextPort]_vars

(***************************************************************************)
(* The MemoryTUN taken alone: its methods called in any order.             *)
(***************************************************************************)
\* the largest number of buffers handed to one Read or Write
MaxBufs == 2

\* the packets written and injected
TunPackets == {InPacket(4, 17, s, d, {}, x) : s \in PeerKeys, d \in LocalKeys, x \in Payloads}
\* the bufs argument of Write: one packet or more
TunBufs == UNION {[1..n -> TunPackets] : n \in 1..MaxBufs}

Min(a, b) == IF a < b THEN a ELSE b

\* everything but the memory TUN and the record of the last call
tunRest == <<vnsVars, thr, histVars, calls, stopChan, deviceClosed, pump, stopper, objVars>>

\* Write's loop over bufs while the TUN is open: each packet queued or dropped
RECURSIVE WriteAll(_, _)
WriteAll(q, bufs) ==
    IF bufs = <<>> THEN q ELSE WriteAll(WriteEnqueue(q, Head(bufs)), Tail(bufs))

\* the number of packets Write's loop goes through before it returns: all of
\* them while the TUN is open; once it is closed the select takes the closed
\* branch at any packet, and has to when inbound has no room
WriteLoops(bufs) ==
    IF tunClosed THEN 0..Min(Len(bufs), TunCap - Len(tunInbound)) ELSE {Len(bufs)}

\* what Write returns after k packets: packetsWritten and the error
WriteReturn(bufs, k) ==
    [n |-> k, err |-> IF k = 0 /\ k < Len(bufs) THEN "EOF" ELSE Nil]

\* MemoryTUN.Write(bufs, offset)
TunWrite(bufs) ==
    /\ \E k \in WriteLoops(bufs) :
          /\ tunInbound' = WriteAll(tunInbound, SubSeq(bufs, 1, k))
          /\ call' = [op |-> "Write", bufs |-> bufs, n |-> WriteReturn(bufs, k).n,
                      err |-> WriteReturn(bufs, k).err]
    /\ UNCHANGED <<tunOutbound, tunClosed, tunRest>>

\* the number of packets Read takes from outbound for nb buffers: as many as
\* are queued, at least one, while the TUN is open; once it is closed the
\* select takes the closed branch at any buffer
ReadLoops(nb) ==
    IF tunClosed THEN 0..Min(nb, Len(tunOutbound))
    ELSE {Min(nb, Len(tunOutbound))} \ {0}

\* MemoryTUN.Read(bufs, sizes, offset) with nb buffers
TunRead(nb) ==
    /\ \E k \in ReadLoops(nb) :
          /\ tunOutbound' = SubSeq(tunOutbound, k + 1, Len(tunOutbound))
          /\ call' = [op |-> "Read", bufs |-> SubSeq(tunOutbound, 1, k), n |-> k,
                      err |-> IF k = 0 THEN "EOF" ELSE Nil]
    /\ UNCHANGED <<tunInbound, tunClosed, tunRest>>

\* MemoryTUN.Close: closeOnce closes the channel `closed`
TunClose ==
    /\ tunClosed' = TRUE
    /\ call' = [op |-> "Close", bufs |-> <<>>, n |-> 0, err |-> Nil]
    /\ UNCHANGED <<tunInbound, tunOutbound, tunRest>>

\* MemoryTUN.InjectInbound(packet), which fills outbound
TunInject(packet) ==
    /\ \/ /\ tunClosed
          /\ UNCHANGED tunOutbound
          /\ call' = [op |-> "InjectInbound", bufs |-> <<packet>>, n |-> 0, err |-> "EOF"]
       \/ /\ tunOutbound' = InjectEnqueue(tunOutbound, packet)
          /\ call' = [op |-> "InjectInbound", bufs |-> <<packet>>, n |-> 0,
                      err |-> IF HasRoom(tunOutbound, TunCap) THEN Nil ELSE "timeout"]
    /\ UNCHANGED <<tunInbound, tunClosed, tunRest>>

\* MemoryTUN.ReadOutbound, which empties inbound
TunReadOutbound ==
    /\ \/ /\ tunClosed
          /\ UNCHANGED tunInbound
          /\ call' = [op |-> "ReadOutbound", bufs |-> <<>>, n |-> 0, err |-> "EOF"]
       \/ /\ tunInbound # <<>>
          /\ tunInbound' = Tail(tunInbound)
          /\ call' = [op |-> "ReadOutbound", bufs |-> <<Head(tunInbound)>>, n |-> 1,
                      err |-> Nil]
    /\ UNCHANGED <<tunOutbound, tunClosed, tunRest>>

NextTun ==
    \/ \E bufs \in TunBufs : TunWrite(bufs)
    \/ \E nb \in 1..MaxBufs : TunRead(nb)
    \/ TunClose
    \/ \E packet \in TunPackets : TunInject(packet)
    \/ TunReadOutbound

SpecTun == Init /\ [][NextTun]_vars

(***************************************************************************)
(* RoutingEngine: NewRoutingEngine and FindPeerForDestination, taken       *)
(* alone.  Peer indices count from 0 as in the code.                       *)
(***************************************************************************)
Max(a, b) == IF a > b THEN a ELSE b

\* netip.Prefix: an address (four octets, or sixteen for IPv6) and the number
\* of bits
Prefix(a, bits) == [addr |-> a, bits |-> bits, err |-> Nil]
NoPrefix == [addr |-> <<0, 0, 0, 0>>, bits |-> 0, err |-> "invalid"]

\* netip.ParsePrefix on the CIDR strings of the configurations
ParsePrefix(cidr) ==
    CASE cidr = "0.0.0.0/0" -> Prefix(<<0, 0, 0, 0>>, 0)
      [] cidr = "10.0.0.0/8" -> Prefix(<<10, 0, 0, 0>>, 8)
      [] cidr = "172.16.0.0/12" -> Prefix(<<172, 16, 0, 0>>, 12)
      [] cidr = "192.168.0.0/16" -> Prefix(<<192, 168, 0, 0>>, 16)
      [] cidr = "192.168.1.0/24" -> Prefix(<<192, 168, 1, 0>>, 24)
      [] cidr = "10.0.0.0/24" -> Prefix(<<10, 0, 0, 0>>, 24)
      [] cidr = "10.1.0.0/24" -> Prefix(<<10, 1, 0, 0>>, 24)
      [] cidr = "fd00::/8" -> Prefix(<<253, 0, 0, 0, 0, 0, 0, 0, 0, 0, 0, 0, 0, 0, 0, 0>>, 8)
      [] OTHER -> NoPrefix

\* the bits of octet i (1..4) that a prefix of the given length covers
OctetBits(bits, i) == Max(0, Min(8, bits - 8 * (i - 1)))

\* netip.Prefix.Contains: the address is of the prefix's family (4 or 16
\* octets) and agrees with the prefix on its bits
Contains(prefix, addr) ==
    /\ Len(prefix.addr) = Len(addr)
    /\ \A i \in 1..Len(addr) :
           prefix.addr[i] \div (2 ^ (8 - OctetBits(prefix.bits, i)))
               = addr[i] \div (2 ^ (8 - OctetBits(prefix.bits, i)))

\* RoutingPolicy and PeerConfig
Policy(cidr, protocol, start, end, priority) ==
    [DestinationCIDR |-> cidr, Protocol |-> protocol,
     PortRange |-> [Start |-> start, End |-> end], Priority |-> priority]
Peer(allowedIPs, policies) == [AllowedIPs |-> allowedIPs, RoutingPolicies |-> policies]

\* NewRoutingEngine, the routing table: under each policy's CIDR the indices
\* of the peers that declare it, once per policy, in configuration order
RECURSIVE PolicyPeers(_, _, _)
PolicyPeers(peers, cidr, i) ==
    IF i > Len(peers) THEN <<>>
    ELSE [j \in 1..Len(SelectSeq(peers[i].RoutingPolicies,
                                 LAMBDA p : p.DestinationCIDR = cidr)) |-> i - 1]
         \o PolicyPeers(peers, cidr, i + 1)

PolicyCIDRs(peers) ==
    UNION {{peers[i].RoutingPolicies[j].DestinationCIDR :
               j \in 1..Len(peers[i].RoutingPolicies)} : i \in 1..Len(peers)}

\* NewRoutingEngine, the allowed prefixes of a peer: those that parse
AllowedPrefixes(peer) ==
    LET parsed == [k \in 1..Len(peer.AllowedIPs) |-> ParsePrefix(peer.AllowedIPs[k])]
    IN  SelectSeq(parsed, LAMBDA x : x.err = Nil)

NewRoutingEngine(peers) ==
    [peers |-> peers,
     routeTable |-> [cidr \in {c \in PolicyCIDRs(peers) : PolicyPeers(peers, c, 1) # <<>>}
                        |-> PolicyPeers(peers, cidr, 1)],
     allowedIPs |-> [i \in {k \in 0..(Len(peers) - 1) : AllowedPrefixes(peers[k + 1]) # <<>>}
                        |-> AllowedPrefixes(peers[i + 1])]]

\* FindPeerForDestination's running best: peer, priority, prefix length
NoBest == [bestPeer |-> -1, bestPriority |-> -1, bestSpecificity |-> -1]

\* the tests a policy passes inside the loops: the CIDR of the table entry,
\* the protocol, and the port range when dstPort > 0
PolicyMatches(policy, cidr, dstPort, protocol) ==
    /\ policy.DestinationCIDR = cidr
    /\ policy.Protocol = "any" \/ policy.Protocol = protocol
    /\ ~(dstPort > 0 /\ (dstPort < policy.PortRange.Start \/ dstPort > policy.PortRange.End))

\* a matching policy replaces the best on a longer prefix, or the same with a
\* higher priority
Better(best, policy, specificity) ==
    \/ specificity > best.bestSpecificity
    \/ specificity = best.bestSpecificity /\ policy.Priority > best.bestPriority

\* the loop over one peer's policies
RECURSIVE ScanPolicies(_, _, _, _, _, _, _)
ScanPolicies(best, policies, peerIdx, cidr, specificity, dstPort, protocol) ==
    IF policies = <<>> THEN best
    ELSE LET policy == Head(policies)
         IN  ScanPolicies(
                 IF PolicyMatches(policy, cidr, dstPort, protocol)
                    /\ Better(best, policy, specificity)
                 THEN [bestPeer |-> peerIdx, bestPriority |-> policy.Priority,
                       bestSpecificity |-> specificity]
                 ELSE best,
                 Tail(policies), peerIdx, cidr, specificity, dstPort, protocol)

\* the loop over the peer indices of one table entry
RECURSIVE ScanPeers(_, _, _, _, _, _, _)
ScanPeers(best, peerIndices, r, cidr, specificity, dstPort, protocol) ==
    IF peerIndices = <<>> THEN best
    ELSE ScanPeers(
             IF Head(peerIndices) >= Len(r.peers) THEN best
             ELSE ScanPolicies(best, r.peers[Head(peerIndices) + 1].RoutingPolicies,
                               Head(peerIndices), cidr, specificity, dstPort, protocol),
             Tail(peerIndices), r, cidr, specificity, dstPort, protocol)

\* the loop over the routing table, in the order the map is ranged over
RECURSIVE ScanTable(_, _, _, _, _, _)
ScanTable(best, cidrOrder, r, addr, dstPort, protocol) ==
    IF cidrOrder = <<>> THEN best
    ELSE LET cidr == Head(cidrOrder)
             prefix == ParsePrefix(cidr)
         IN  ScanTable(
                 IF prefix.err = Nil /\ Contains(prefix, addr)
                 THEN ScanPeers(best, r.routeTable[cidr], r, cidr, prefix.bits,
                                dstPort, protocol)
                 ELSE best,
                 Tail(cidrOrder), r, addr, dstPort, protocol)

\* the fallback loop over allowedIPs, in the order the map is ranged over: the
\* first peer one of whose prefixes contains the address, or -1
RECURSIVE ScanAllowed(_, _, _)
ScanAllowed(peerOrder, r, addr) ==
    IF peerOrder = <<>> THEN -1
    ELSE IF \E k \in 1..Len(r.allowedIPs[Head(peerOrder)]) :
                Contains(r.allowedIPs[Head(peerOrder)][k], addr)
    THEN Head(peerOrder)
    ELSE ScanAllowed(Tail(peerOrder), r, addr)

\* FindPeerForDestination, with the orders in which the two maps are ranged over
FindPeerForDestination(r, addr, dstPort, protocol, cidrOrder, peerOrder) ==
    LET best == ScanTable(NoBest, cidrOrder, r, addr, dstPort, protocol)
    IN  IF best.bestPeer >= 0 THEN best.bestPeer ELSE ScanAllowed(peerOrder, r, addr)

\* the orders a range over a map with the keys S may take
Orders(S) == {f \in [1..Cardinality(S) -> S] : \A m, n \in DOMAIN f : m # n => f[m] # f[n]}

\* the configuration of TestRoutingEngine
TestRoutingEnginePeers ==
    << Peer(<<"0.0.0.0/0">>, <<Policy("0.0.0.0/0", "any", 1, 65535, 0)>>),
       Peer(<<"192.168.0.0/16", "172.16.0.0/12">>,
            <<Policy("192.168.1.0/24", "tcp", 80, 443, 1),
              Policy("0.0.0.0/0", "tcp", 8080, 9000, 2)>>),
       Peer(<<"10.0.0.0/8">>, <<Policy("10.0.0.0/8", "any", 1, 65535, 0)>>) >>

\* the same three peers where the first declares no routing policy
ThreePeers ==
    << Peer(<<"0.0.0.0/0">>, <<>>),
       Peer(<<"192.168.0.0/16">>,
            <<Policy("192.168.1.0/24", "tcp", 80, 443, 1),
              Policy("0.0.0.0/0", "tcp", 8080, 9000, 2)>>),
       Peer(<<"10.0.0.0/8">>, <<Policy("10.0.0.0/8", "any", 1, 65535, 0)>>) >>

\* a family of two-peer configurations as the configuration parser builds
\* them: up to MaxPolicies policies a peer, the priority of a policy being the
\* number of policies the peer had before it
MaxPolicies == 2
RouteShapes ==
    { [cidr |-> "0.0.0.0/0", protocol |-> "any", start |-> 1, end |-> 65535],
      [cidr |-> "10.0.0.0/8", protocol |-> "tcp", start |-> 80, end |-> 443] }
ParsedPolicies ==
    UNION {{[j \in 1..n |-> Policy(s[j].cidr, s[j].protocol, s[j].start, s[j].end, j - 1)] :
               s \in [1..n -> RouteShapes]} : n \in 0..MaxPolicies}
ParsedPeers ==
    {Peer(a, p) : a \in {<<"0.0.0.0/0">>, <<"10.0.0.0/8", "not-a-prefix">>}, p \in ParsedPolicies}
RouteConfigs ==
    {TestRoutingEnginePeers, ThreePeers} \cup {<<p, q>> : p, q \in ParsedPeers}

\* the lookups made
RouteAddrs == {<<8, 8, 8, 8>>, <<192, 168, 1, 100>>, <<1, 2, 3, 4>>, <<10, 1, 2, 3>>}
RoutePorts == {0, 22, 53, 80, 443, 3000, 8080}
RouteProtocols == {"tcp", "udp"}

\* the result of one FindPeerForDestination; each of the two maps is ranged
\* over in any order
Found(peers, addr, dstPort, protocol) ==
    LET r == NewRoutingEngine(peers)
    IN  \E cidrOrder \in Orders(DOMAIN r.routeTable), peerOrder \in Orders(DOMAIN r.allowedIPs) :
            /\ call' = [op |-> "FindPeerForDestination", peers |-> peers,
                        dstIP |-> addr, dstPort |-> dstPort, protocol |-> protocol,
                        cidrOrder |-> cidrOrder, peerOrder |-> peerOrder,
                        ret |-> FindPeerForDestination(r, addr, dstPort, protocol,
                                                       cidrOrder, peerOrder)]
            /\ UNCHANGED stackVars

\* the first lookup on an engine newly built from a configuration
RouteLookup(peers, addr, dstPort, protocol) ==
    /\ call = NoCall
    /\ Found(peers, addr, dstPort, protocol)

\* the same lookup made again on the same engine
RouteRepeat ==
    /\ call.op = "FindPeerForDestination"
    /\ Found(call.peers, call.dstIP, call.dstPort, call.protocol)

NextRoute ==
    \/ \E peers \in RouteConfigs, addr \in RouteAddrs, dstPort \in RoutePorts,
          protocol \in RouteProtocols :
           RouteLookup(peers, addr, dstPort, protocol)
    \/ RouteRepeat

SpecRoute == Init /\ [][NextRoute]_vars

(***************************************************************************)
(* ApplyCLIRoutes, taken alone.  A command-line string is the sequence of  *)
(* its pieces: ":" , " " , and the runs of other characters between them.  *)
(***************************************************************************)
\* strings.Split(s, ":"): the pieces between the colons, one field more than
\* there are colons
RECURSIVE Split(_)
Split(s) ==
    IF \A i \in 1..Len(s) : s[i] # ":" THEN <<s>>
    ELSE LET i == CHOOSE k \in 1..Len(s) : s[k] = ":" /\ \A m \in 1..(k - 1) : s[m] # ":"
         IN  <<SubSeq(s, 1, i - 1)>> \o Split(SubSeq(s, i + 1, Len(s)))

\* strings.TrimSpace: the leading and trailing blanks removed
RECURSIVE TrimSpace(_)
TrimSpace(s) ==
    IF s # <<>> /\ Head(s) = " " THEN TrimSpace(Tail(s))
    ELSE IF s # <<>> /\ s[Len(s)] = " " THEN TrimSpace(SubSeq(s, 1, Len(s) - 1))
    ELSE s

\* the text of a field without colons and blanks: its single run of
\* characters, or the empty string
Text(s) == IF Len(s) = 1 THEN s[1] ELSE ""

\* netip.ParseAddr on the addresses of the command lines
ParseAddr(ip) ==
    CASE ip = "10.0.0.3" -> [addr |-> <<10, 0, 0, 3>>, err |-> Nil]
      [] ip = "10.0.0.4" -> [addr |-> <<10, 0, 0, 4>>, err |-> Nil]
      [] ip = "10.1.0.5" -> [addr |-> <<10, 1, 0, 5>>, err |-> Nil]
      [] ip = "192.168.1.1" -> [addr |-> <<192, 168, 1, 1>>, err |-> Nil]
      [] OTHER -> [addr |-> <<>>, err |-> "invalid"]

\* the inner loop of ApplyCLIRoutes: one of the peer's allowed prefixes parses
\* and contains the peer IP, which parses
CanRoute(peer, peerIP) ==
    \E k \in 1..Len(peer.AllowedIPs) :
        /\ ParsePrefix(peer.AllowedIPs[k]).err = Nil
        /\ ParseAddr(peerIP).err = Nil
        /\ Contains(ParsePrefix(peer.AllowedIPs[k]), ParseAddr(peerIP).addr)

\* the routing policy added for a route: any protocol, all ports, the priority
\* the number of policies the peer has
AddPolicy(peer, cidr) ==
    [peer EXCEPT !.RoutingPolicies =
        Append(@, Policy(cidr, "any", 1, 65535, Len(peer.RoutingPolicies)))]

\* the loop over the routes; the peers keep the policies added before an error
RECURSIVE ProcessRoutes(_, _)
ProcessRoutes(peers, routes) ==
    IF routes = <<>> THEN [peers |-> peers, err |-> Nil]
    ELSE LET parts == Split(Head(routes))
         IN  IF Len(parts) # 2 THEN [peers |-> peers, err |-> "invalid route format"]
             ELSE LET cidr == Text(TrimSpace(parts[1]))
                      peerIP == Text(TrimSpace(parts[2]))
                      found == {i \in 1..Len(peers) : CanRoute(peers[i], peerIP)}
                  IN  IF ParsePrefix(cidr).err # Nil
                      THEN [peers |-> peers, err |-> "invalid CIDR"]
                      ELSE IF found = {}
                      THEN [peers |-> peers, err |-> "no peer found"]
                      ELSE LET i == CHOOSE k \in found : \A m \in found : k <= m
                           IN  ProcessRoutes([peers EXCEPT ![i] = AddPolicy(@, cidr)],
                                             Tail(routes))

\* ApplyCLIRoutes: the exit node, when given, is the first route
ApplyCLIRoutes(peers, exitNode, routes) ==
    ProcessRoutes(peers,
                  IF exitNode # <<>> THEN <<(<<"0.0.0.0/0", ":">> \o exitNode)>> \o routes
                  ELSE routes)

\* the configurations, exit nodes and routes given
MaxRoutes == 2
CLIConfigs ==
    { << Peer(<<"10.0.0.0/24">>, <<>>), Peer(<<"10.1.0.0/24">>, <<>>) >>,
      << Peer(<<"not-a-prefix", "10.0.0.0/8">>, <<Policy("10.0.0.0/8", "tcp", 80, 443, 0)>>),
         Peer(<<"10.0.0.0/24">>, <<>>) >>,
      << Peer(<<"fd00::/8">>, <<>>), Peer(<<"0.0.0.0/0">>, <<>>) >> }
ExitNodes == {<<>>, <<"10.0.0.3">>, <<"192.168.1.1">>, <<"fd00", ":", ":", "1">>}
CLIRoutes ==
    { <<"192.168.1.0/24", ":", "10.0.0.4">>, <<"172.16.0.0/12", ":", " ", "10.1.0.5">>,
      <<"invalid-route">>, <<"invalid-cidr", ":", "10.0.0.3">>,
      <<"192.168.1.0/24", ":", "192.168.1.1">>, <<"10.0.0.0/8", ":", "not-an-ip">>,
      <<"10.0.0.0/8", ":", "10.0.0.3", ":", "10.0.0.4">> }

\* one ApplyCLIRoutes on a configuration as parsed
ApplyCLI(peers, exitNode, routes) ==
    /\ call = NoCall
    /\ call' = [op |-> "ApplyCLIRoutes", peers |-> peers, exitNode |-> exitNode,
                routes |-> routes, ret |-> ApplyCLIRoutes(peers, exitNode, routes)]
    /\ UNCHANGED stackVars

NextCLI ==
    \E peers \in CLIConfigs, exitNode \in ExitNodes,
       routes \in UNION {[1..n -> CLIRoutes] : n \in 0..MaxRoutes} :
        ApplyCLI(peers, exitNode, routes)

SpecCLI == Init /\ [][NextCLI]_vars

(***************************************************************************)
(* PortForwarder: Run, handleBind and closeAllListeners, with the senders  *)
(* of msgChan and the owner of the context.                                *)
(***************************************************************************)
MaxMsgs == 4
MsgCap == 2
FwdPorts == {8080, 9090}
IPCMessage(type, port) == [Type |-> type, Port |-> port]
\* what a receive from the closed, empty channel yields
ZeroMessage == IPCMessage("", 0)
FwdMessages == {IPCMessage(type, port) : type \in {"BIND", "CONNECT"}, port \in FwdPorts}

\* everything but the port forwarder
notFwdVars == <<vnsVars, thr, histVars, calls, wgVars, call, relay, ipc, shimVars, mtun>>

\* a listener net.Listen returned: on the WireGuard address or on 127.0.0.1
Listener(addr, port) == [addr |-> addr, port |-> port]

\* handleBind's test `_, exists := pf.listeners[port]`
AlreadyListeningNever(port) == FALSE
AlreadyListening(port) == port \in DOMAIN pfListeners

\* net.Listen on the address succeeds when the address can be listened on
\* (up) and no open listener holds it
CanListen(addr, port, up) == up /\ Listener(addr, port) \notin pfOpen

\* handleBind: nothing when the port is listened on; otherwise a listener on
\* the WireGuard address, or failing that on 127.0.0.1, or failing that none
handleBind(port, wgUp, loUp) ==
    IF AlreadyListening(port) THEN UNCHANGED <<pfListeners, pfOpen>>
    ELSE IF CanListen("wg", port, wgUp)
    THEN /\ pfListeners' = (port :> Listener("wg", port)) @@ pfListeners
         /\ pfOpen' = pfOpen \cup {Listener("wg", port)}
    ELSE IF CanListen("lo", port, loUp)
    THEN /\ pfListeners' = (port :> Listener("lo", port)) @@ pfListeners
         /\ pfOpen' = pfOpen \cup {Listener("lo", port)}
    ELSE UNCHANGED <<pfListeners, pfOpen>>

\* Run, the case `msg := <-pf.msgChan`: a message, or the zero message once
\* the channel is closed and empty; a BIND message is handled
RunReceive ==
    /\ pfRun = "select"
    /\ msgChan # <<>> \/ msgClosed
    /\ LET msg == IF msgChan # <<>> THEN Head(msgChan) ELSE ZeroMessage
       IN  /\ msgChan' = IF msgChan # <<>> THEN Tail(msgChan) ELSE msgChan
           /\ IF msg.Type = "BIND"
              THEN /\ pfBinds' = Append(pfBinds, [port |-> msg.Port,
                                                 listening |-> AlreadyListening(msg.Port)])
                   /\ \E wgUp, loUp \in BOOLEAN : handleBind(msg.Port, wgUp, loUp)
              ELSE UNCHANGED <<pfBinds, pfListeners, pfOpen>>
    /\ UNCHANGED <<ctxDone, msgClosed, pfRun, pfSent, notFwdVars>>

\* closeAllListeners: every listener of the table closed and deleted
closeAllListenersKeeps ==
    /\ pfOpen' = pfOpen \ {pfListeners[p] : p \in DOMAIN pfListeners}
    /\ pfListeners' = pfListeners
closeAllListeners ==
    /\ pfOpen' = pfOpen \ {pfListeners[p] : p \in DOMAIN pfListeners}
    /\ pfListeners' = <<>>

\* Run, the case `<-ctx.Done()`
RunDone ==
    /\ pfRun = "select"
    /\ ctxDone
    /\ closeAllListeners
    /\ pfRun' = "returned"
    /\ UNCHANGED <<ctxDone, msgChan, msgClosed, pfBinds, pfSent, notFwdVars>>

\* the IPC server sends a message on msgChan
FwdSend(msg) ==
    /\ ~msgClosed /\ Len(msgChan) < MsgCap /\ pfSent < MaxMsgs
    /\ msgChan' = Append(msgChan, msg)
    /\ pfSent' = pfSent + 1
    /\ UNCHANGED <<ctxDone, msgClosed, pfListeners, pfOpen, pfRun, pfBinds, notFwdVars>>

\* msgChan is closed
FwdCloseChan ==
    /\ ~msgClosed
    /\ msgClosed' = TRUE
    /\ UNCHANGED <<ctxDone, msgChan, pfListeners, pfOpen, pfRun, pfBinds, pfSent, notFwdVars>>

\* the context is cancelled
FwdCancel ==
    /\ ~ctxDone
    /\ ctxDone' = TRUE
    /\ UNCHANGED <<msgChan, msgClosed, pfListeners, pfOpen, pfRun, pfBinds, pfSent, notFwdVars>>

NextFwd ==
    \/ RunReceive
    \/ RunDone
    \/ \E msg \in FwdMessages : FwdSend(msg)
    \/ FwdCloseChan
    \/ FwdCancel

\* the select of Run picks among its ready cases at random, so the case
\* `<-ctx.Done()`, ready from the cancellation on, is picked in the end
SpecFwd == Init /\ [][NextFwd]_vars /\ WF_vars(RunDone)

(***************************************************************************)
(* PortForwarder.handleConnection: one accepted connection wgConn, the     *)
(* connection localConn dialed to 127.0.0.1:port, the goroutine copying    *)
(* wgConn to localConn ("up") and the function body copying localConn to   *)
(* wgConn ("down"), with the two programs at the far ends.                 *)
(***************************************************************************)
MaxBytes == 2
notRelayVars == <<vnsVars, thr, histVars, calls, wgVars, call, fwdVars, ipc, shimVars,
                  mtun>>

\* the connection is accepted and the dial to the local port succeeds
RelayAccept ==
    /\ relay = NoRelay
    /\ relay' = [state |-> "open",
                 wIn |-> <<>>, lIn |-> <<>>,      \* bytes that arrived on wgConn, localConn
                 wSent |-> <<>>, lSent |-> <<>>,  \* history: bytes each far end sent
                 wGot |-> <<>>, lGot |-> <<>>,    \* history: bytes written to each far end
                 wEof |-> FALSE, lEof |-> FALSE,  \* the far end finished sending
                 wgClosed |-> FALSE, localClosed |-> FALSE,  \* wgConn.Close(), localConn.Close()
                 up |-> "copy", down |-> "copy"]
    /\ UNCHANGED notRelayVars

\* the remote end sends its next byte on wgConn
RemoteSend ==
    /\ relay.state = "open" /\ ~relay.wEof /\ ~relay.wgClosed
    /\ Len(relay.wSent) < MaxBytes
    /\ relay' = [relay EXCEPT !.wIn = Append(@, Len(relay.wSent) + 1),
                              !.wSent = Append(@, Len(relay.wSent) + 1)]
    /\ UNCHANGED notRelayVars

\* the remote end finishes sending (closes its writing half)
RemoteFinish ==
    /\ relay.state = "open" /\ ~relay.wEof /\ ~relay.wgClosed
    /\ relay' = [relay EXCEPT !.wEof = TRUE]
    /\ UNCHANGED notRelayVars

\* the local program sends its next byte on localConn
LocalSend ==
    /\ relay.state = "open" /\ ~relay.lEof /\ ~relay.localClosed
    /\ Len(relay.lSent) < MaxBytes
    /\ relay' = [relay EXCEPT !.lIn = Append(@, 10 + Len(relay.lSent) + 1),
                              !.lSent = Append(@, 10 + Len(relay.lSent) + 1)]
    /\ UNCHANGED notRelayVars

\* the local program finishes sending
LocalFinish ==
    /\ relay.state = "open" /\ ~relay.lEof /\ ~relay.localClosed
    /\ relay' = [relay EXCEPT !.lEof = TRUE]
    /\ UNCHANGED notRelayVars

\* what the goroutine does to localConn when its io.Copy has returned
UpAfterCopy(r) == [r EXCEPT !.localClosed = TRUE]

\* io.Copy(localConn, wgConn), one round: the bytes that arrived are written
\* to localConn; it returns at the end of the remote end's bytes, or when
\* wgConn is closed
UpCopy ==
    /\ relay.state = "open" /\ relay.up = "copy"
    /\ IF relay.wgClosed THEN relay' = [relay EXCEPT !.up = "closing"]
       ELSE IF relay.wIn # <<>>
       THEN relay' = [relay EXCEPT !.lGot = @ \o relay.wIn, !.wIn = <<>>]
       ELSE /\ relay.wEof
            /\ relay' = [relay EXCEPT !.up = "closing"]
    /\ UNCHANGED notRelayVars

\* the goroutine's localConn.Close()
UpClose ==
    /\ relay.state = "open" /\ relay.up = "closing"
    /\ relay' = [UpAfterCopy(relay) EXCEPT !.up = "done"]
    /\ UNCHANGED notRelayVars

\* io.Copy(wgConn, localConn), one round, and on its return the deferred
\* localConn.Close() and wgConn.Close()
DownCopy ==
    /\ relay.state = "open" /\ relay.down = "copy"
    /\ IF relay.localClosed
       THEN relay' = [relay EXCEPT !.down = "done", !.wgClosed = TRUE]
       ELSE IF relay.lIn # <<>>
       THEN relay' = [relay EXCEPT !.wGot = @ \o relay.lIn, !.lIn = <<>>]
       ELSE /\ relay.lEof
            /\ relay' = [relay EXCEPT !.down = "done", !.localClosed = TRUE,
                                      !.wgClosed = TRUE]
    /\ UNCHANGED notRelayVars

NextRelay ==
    \/ RelayAccept
    \/ RemoteSend
    \/ RemoteFinish
    \/ LocalSend
    \/ LocalFinish
    \/ UpCopy
    \/ UpClose
    \/ DownCopy

SpecRelay == Init /\ [][NextRelay]_vars

(***************************************************************************)
(* IPCServer.handleConnection: the control connections, their lines, and   *)
(* msgChan with its receiver.                                              *)
(***************************************************************************)
MaxLines == 3
notIpcVars == <<vnsVars, thr, histVars, calls, wgVars, call, relay, shimVars, mtun,
                ctxDone, msgClosed, pfListeners, pfOpen, pfRun, pfBinds, pfSent>>

\* a line written on a control connection: the message it encodes, whether it
\* is valid JSON, and whether it is longer than bufio.MaxScanTokenSize (64 KiB)
Line(msg, json, long) == [msg |-> msg, json |-> json, long |-> long]

\* the k-th line of connection c names port 100 * c + k
LineMessage(c, k) == IPCMessage("BIND", 100 * c + k)

\* json.Unmarshal of a line into an IPCMessage
Unmarshal(line) == IF line.json THEN [msg |-> line.msg, err |-> Nil]
                   ELSE [msg |-> ZeroMessage, err |-> "invalid"]

\* the client of connection c writes a line
IpcWrite(c, json, long) ==
    /\ ~ipc.conns[c].closed
    /\ ipc.conns[c].n < MaxLines
    /\ LET msg == LineMessage(c, ipc.conns[c].n + 1)
       IN  ipc' = [ipc EXCEPT
                      !.conns[c].in = Append(@, Line(msg, json, long)),
                      !.conns[c].n = @ + 1,
                      !.conns[c].wrote = IF json THEN Append(@, msg) ELSE @]
    /\ UNCHANGED <<msgChan, notIpcVars>>

\* bufio.Scanner.Scan with the default buffer: FALSE on a line too long
ScanAccepts(line) == ~line.long

\* one round of handleConnection's loop: Scan; a line too long ends the loop
\* and the connection is closed; a line that does not parse is skipped; a
\* message is sent on msgChan when there is room and dropped otherwise
IpcScan(c) ==
    /\ ~ipc.conns[c].closed
    /\ ipc.conns[c].in # <<>>
    /\ LET line == Head(ipc.conns[c].in)
       IN  IF ~ScanAccepts(line)
           THEN /\ ipc' = [ipc EXCEPT !.conns[c].closed = TRUE, !.conns[c].in = <<>>]
                /\ UNCHANGED msgChan
           ELSE IF Unmarshal(line).err # Nil
           THEN /\ ipc' = [ipc EXCEPT !.conns[c].in = Tail(@)]
                /\ UNCHANGED msgChan
           ELSE IF Len(msgChan) < MsgCap
           THEN /\ msgChan' = Append(msgChan, Unmarshal(line).msg)
                /\ ipc' = [ipc EXCEPT !.conns[c].in = Tail(@),
                                      !.queued = Append(@, Unmarshal(line).msg)]
           ELSE /\ ipc' = [ipc EXCEPT !.conns[c].in = Tail(@),
                                      !.conns[c].full = Append(@, Unmarshal(line).msg)]
                /\ UNCHANGED msgChan
    /\ UNCHANGED notIpcVars

\* the receiver of MessageChan() takes a message
IpcReceive ==
    /\ msgChan # <<>>
    /\ msgChan' = Tail(msgChan)
    /\ UNCHANGED <<ipc, notIpcVars>>

NextIPC ==
    \/ \E c \in IpcConns, json, long \in BOOLEAN : IpcWrite(c, json, long)
    \/ \E c \in IpcConns : IpcScan(c)
    \/ IpcReceive

SpecIPC == Init /\ [][NextIPC]_vars

(***************************************************************************)
(* The interception shim (the first library of part_000): socket, send,    *)
(* recv and close called by the threads of the child, send_ipc_message on  *)
(* the one control socket, and the CCS answering the requests in order.    *)
(***************************************************************************)
MaxShimCalls == 4
notShimVars == <<vnsVars, thr, histVars, calls, wgVars, call, fwdVars, relay, ipc,
                 mtun>>

\* the descriptors the child passes: those the shim may have returned
ShimFds == FdBase..(FdLimit + 1)
\* the payloads of send, and the payload the CCS answers a recv with
SendBufs == {<<1>>, <<1, 2>>}
RecvPayload == <<7, 8>>

\* the IPCMessage a call fills in (`IPCMessage msg = {0}` and its assignments)
Msg(type, connId, data) ==
    [type |-> type, conn_id |-> connId, socket_fd |-> 0,
     domain |-> IF type = "socket" THEN 2 ELSE 0,       \* AF_INET
     sock_type |-> IF type = "socket" THEN 1 ELSE 0,    \* SOCK_STREAM
     protocol |-> 0, address |-> "", port |-> 0, data |-> data]

\* the JSON object send_ipc_message writes: the keys it prints, each under
\* its condition
Keys(msg) ==
    {"type", "protocol"}
    \cup (IF msg.conn_id > 0 THEN {"conn_id"} ELSE {})
    \cup (IF msg.socket_fd > 0 THEN {"socket_fd"} ELSE {})
    \cup (IF msg.domain > 0 THEN {"domain"} ELSE {})
    \cup (IF msg.sock_type > 0 THEN {"sock_type"} ELSE {})
    \cup (IF msg.address # "" THEN {"address"} ELSE {})
    \cup (IF msg.port > 0 THEN {"port"} ELSE {})
WriteJson(msg) == [k \in Keys(msg) |-> msg[k]]

\* the IPCResponse send_ipc_message fills from the text read: success,
\* conn_id and error; data and data_len stay as `IPCResponse resp = {0}` left
\* them
ParseResponse(text) ==
    [success |-> text.success,
     conn_id |-> IF "conn_id" \in DOMAIN text THEN text.conn_id ELSE 0,
     data_len |-> 0, data |-> <<>>]

\* get_conn_id
get_conn_id(fd) == IF fd < FdBase \/ fd >= FdLimit THEN 0 ELSE fdMappings[fd]

\* socket(AF_INET, ...): the request is prepared
ShimSocket(t) ==
    /\ shimThr[t].pc = "idle" /\ shimCalls < MaxShimCalls
    /\ shimCalls' = shimCalls + 1
    /\ shimThr' = [shimThr EXCEPT ![t] =
           [pc |-> "write", op |-> "socket", fd |-> 0, msg |-> Msg("socket", 0, <<>>),
            len |-> 0, req |-> shimCalls + 1]]
    /\ UNCHANGED <<fdMappings, nextFakeFd, sockOut, sockIn, ccsNext, live, notShimVars>>

\* send, recv or close on a descriptor: the real call when get_conn_id gives
\* 0, otherwise the request is prepared
ShimCall(t, op, fd, data) ==
    /\ shimThr[t].pc = "idle" /\ shimCalls < MaxShimCalls
    /\ shimCalls' = shimCalls + 1
    /\ shimThr' = [shimThr EXCEPT ![t] =
           IF get_conn_id(fd) = 0
           THEN [pc |-> "idle", op |-> op, fd |-> fd, ret |-> "real"]
           ELSE [pc |-> "write", op |-> op, fd |-> fd,
                 msg |-> Msg(op, get_conn_id(fd), IF op = "send" THEN data ELSE <<>>),
                 len |-> Len(data), req |-> shimCalls + 1]]
    /\ live' = IF op = "close" THEN {d \in live : d.fd # fd} ELSE live
    /\ UNCHANGED <<fdMappings, nextFakeFd, sockOut, sockIn, ccsNext, notShimVars>>

\* send_ipc_message, `write(sock, json_buf, pos)`
ShimWrite(t) ==
    /\ shimThr[t].pc = "write"
    /\ sockOut' = Append(sockOut, [json |-> WriteJson(shimThr[t].msg), req |-> shimThr[t].req])
    /\ shimThr' = [shimThr EXCEPT ![t].pc = "read"]
    /\ UNCHANGED <<fdMappings, nextFakeFd, sockIn, ccsNext, live, shimCalls, notShimVars>>

\* send_ipc_message, `read(sock, resp_buf, ...)` and the parsing: the thread
\* takes the response that is first on the socket
ShimRead(t) ==
    /\ shimThr[t].pc = "read"
    /\ sockIn # <<>>
    /\ sockIn' = Tail(sockIn)
    /\ shimThr' = [shimThr EXCEPT ![t] =
           [pc |-> "finish", op |-> @.op, fd |-> @.fd, msg |-> @.msg, len |-> @.len,
            req |-> @.req, raw |-> Head(sockIn), resp |-> ParseResponse(Head(sockIn).text)]]
    /\ UNCHANGED <<fdMappings, nextFakeFd, sockOut, ccsNext, live, shimCalls, notShimVars>>

\* map_conn_to_fd: the next descriptor, entered in the table when below the
\* table's end
map_conn_to_fd(connId) ==
    /\ nextFakeFd' = nextFakeFd + 1
    /\ fdMappings' = IF nextFakeFd < FdLimit
                     THEN [fdMappings EXCEPT ![nextFakeFd] = connId]
                     ELSE fdMappings

\* the rest of the call after send_ipc_message returned
ShimFinish(t) ==
    /\ shimThr[t].pc = "finish"
    /\ LET s == shimThr[t]
           done(ret) == shimThr' = [shimThr EXCEPT ![t] =
                            [pc |-> "idle", op |-> s.op, fd |-> s.fd, req |-> s.req,
                             raw |-> s.raw, len |-> s.len, ret |-> ret]]
       IN  CASE s.op = "socket" ->
                  IF ~s.resp.success
                  THEN done(-1) /\ UNCHANGED <<fdMappings, nextFakeFd, live>>
                  ELSE /\ map_conn_to_fd(s.resp.conn_id)
                       /\ done(nextFakeFd)
                       /\ live' = live \cup
                              {[fd |-> nextFakeFd,
                                conn |-> IF "conn_id" \in DOMAIN s.raw.text
                                         THEN s.raw.text.conn_id ELSE 0]}
             [] s.op = "send" ->
                  /\ done(IF s.resp.success THEN s.len ELSE -1)
                  /\ UNCHANGED <<fdMappings, nextFakeFd, live>>
             [] s.op = "recv" ->
                  /\ done(IF s.resp.success
                          THEN SubSeq(s.resp.data, 1, Min(s.resp.data_len, s.len))
                          ELSE -1)
                  /\ UNCHANGED <<fdMappings, nextFakeFd, live>>
             [] s.op = "close" ->
                  /\ fdMappings' = IF s.fd < FdLimit THEN [fdMappings EXCEPT ![s.fd] = 0]
                                   ELSE fdMappings
                  /\ done(0)
                  /\ UNCHANGED <<nextFakeFd, live>>
    /\ UNCHANGED <<sockOut, sockIn, ccsNext, shimCalls, notShimVars>>

\* the CCS serves the first request of the control connection and writes its
\* response: a new connection id for socket, the received payload for recv
CcsServe ==
    /\ sockOut # <<>>
    /\ LET r == Head(sockOut)
           text == CASE r.json.type = "socket" -> [success |-> TRUE, conn_id |-> ccsNext]
                     [] r.json.type = "recv" -> [success |-> TRUE, data |-> RecvPayload]
                     [] OTHER -> [success |-> TRUE]
       IN  /\ sockIn' = Append(sockIn, [text |-> text, re |-> r.req])
           /\ ccsNext' = IF r.json.type = "socket" THEN ccsNext + 1 ELSE ccsNext
    /\ sockOut' = Tail(sockOut)
    /\ UNCHANGED <<fdMappings, nextFakeFd, shimThr, live, shimCalls, notShimVars>>

NextShim ==
    \/ \E t \in ShimThreads : ShimSocket(t)
    \/ \E t \in ShimThreads, op \in {"send", "recv", "close"}, fd \in ShimFds,
          data \in SendBufs : ShimCall(t, op, fd, data)
    \/ \E t \in ShimThreads : ShimWrite(t)
    \/ \E t \in ShimThreads : ShimRead(t)
    \/ \E t \in ShimThreads : ShimFinish(t)
    \/ CcsServe

SpecShim == Init /\ [][NextShim]_vars

(***************************************************************************)
(* The control channel server's accept and recv requests: the handler of   *)
(* one control connection polls the stack, which never waits, until the    *)
(* request's budget is used up.  The stack is the one above; the listener  *)
(* is set up by the handler's earlier requests and filled by the peer.     *)
(***************************************************************************)
\* scaled number of polls of one accept (10 s at one poll per 100 ms: 100)
AcceptPolls == 3
\* scaled number of polls of one recv (1 s at one poll per 100 ms: 10)
RecvPolls == 2
\* the number of requests the handler serves and of packets the peer sends
MaxRequests == 7

\* the handler thread of the control connection
CcsThread == "a1"

\* the polls a request may make
Budget(op) == IF op = "accept" THEN AcceptPolls ELSE RecvPolls
\* the answer of a request whose budget is used up
OutOfBudget(op) == IF op = "accept" THEN "timeout" ELSE "no-data"

\* a request: its kind and connection id, where the handler is, the polls
\* made, the answer, and as history whether the last poll found something
\* queued and the number of polls that did
CcsRequest(op, id) ==
    [op |-> op, id |-> id, pc |-> "poll", polls |-> 0, answer |-> Nil, value |-> 0,
     queued |-> FALSE, found |-> 0]

\* everything the control channel server does not touch but through the stack
notCcsVars == <<wgVars, objVars>>

\* the handler serves no request
CcsFree == IF call.op \in {"accept", "recv"} THEN call.pc = "answered" ELSE TRUE

\* a set-up request (socket, bind, listen) is served, between two others
CcsSetup(A) ==
    CcsFree /\ calls < MaxRequests /\ calls' = calls + 1 /\ A /\ UNCHANGED <<call, objVars>>
\* the peer sends a packet, at any time
CcsPeer(A) == calls < MaxRequests /\ calls' = calls + 1 /\ A /\ UNCHANGED <<call, objVars>>

\* an accept or recv request arrives while the handler serves no other:
\* an unknown id, or an accept on a connection that does not listen, is
\* answered at once
CcsReceive(op, id) ==
    /\ Ready(CcsThread) /\ CcsFree
    /\ calls < MaxRequests /\ calls' = calls + 1
    /\ call' = IF id \notin connections
               THEN [CcsRequest(op, id) EXCEPT !.pc = "answered", !.answer = "unknown-id"]
               ELSE IF op = "accept" /\ conns[id].State # "listening"
               THEN [CcsRequest(op, id) EXCEPT !.pc = "answered", !.answer = "not-listening"]
               ELSE CcsRequest(op, id)
    /\ UNCHANGED <<vnsVars, thr, histVars, notCcsVars>>

\* one poll starts: AcceptConnection on the connection's local address, or
\* ReceiveData on the connection
CcsPoll ==
    /\ call.op \in {"accept", "recv"} /\ call.pc = "poll"
    /\ IF call.op = "accept"
       THEN AcceptLookup(CcsThread, conns[call.id].LocalAddr)
       ELSE ReceiveLookup(CcsThread, call.id)
    /\ call' = [call EXCEPT !.pc = "polling"]
    /\ UNCHANGED <<calls, objVars>>

\* what the poll finds queued when it looks
Queued ==
    IF call.op = "accept"
    THEN listeners[thr[CcsThread].id].AcceptQueue # <<>>
    ELSE conns[call.id].IncomingData # <<>>

\* the poll looks at the queue
CcsLook ==
    /\ call.op \in {"accept", "recv"} /\ call.pc = "polling"
    /\ thr[CcsThread].step = "dequeue"
    /\ IF call.op = "accept" THEN AcceptDequeue(CcsThread) ELSE ReceiveDequeue(CcsThread)
    /\ call' = [call EXCEPT !.queued = Queued,
                            !.found = IF Queued THEN @ + 1 ELSE @]
    /\ UNCHANGED <<calls, objVars>>

\* the poll has returned: the handler answers with what it got, or with the
\* time-out once the budget is used up, or sleeps until the next poll
CcsAnswer ==
    /\ call.op \in {"accept", "recv"} /\ call.pc = "polling"
    /\ Ready(CcsThread)
    /\ call' = IF thr[CcsThread].ret = "ok"
               THEN [call EXCEPT !.pc = "answered", !.polls = @ + 1, !.answer = "ok",
                                 !.value = IF call.op = "accept" THEN thr[CcsThread].id
                                           ELSE thr[CcsThread].data]
               ELSE IF call.polls + 1 >= Budget(call.op)
               THEN [call EXCEPT !.pc = "answered", !.polls = @ + 1,
                                 !.answer = OutOfBudget(call.op)]
               ELSE [call EXCEPT !.pc = "poll", !.polls = @ + 1, !.queued = FALSE]
    /\ UNCHANGED <<vnsVars, thr, histVars, calls, notCcsVars>>

NextCCS ==
    \/ CcsSetup(CreateConnection(CcsThread, "tcp"))
    \/ \E connID \in Issued, addr \in BindAddrs("tcp") :
           CcsSetup(BindConnection(CcsThread, connID, addr))
    \/ \E connID \in Issued : CcsSetup(ListenConnection(CcsThread, connID))
    \/ \E op \in {"accept", "recv"}, id \in Issued : CcsReceive(op, id)
    \/ CcsPoll
    \/ CcsLook
    \/ CcsAnswer
    \/ CcsPeer(Deliver("net"))
    \/ Step(DeliverParse("net"))
    \/ Step(DeliverTCPSyn("net"))
    \/ Step(DeliverTCPSynAck("net"))
    \/ Step(DeliverTCPFind("net"))
    \/ Step(DeliverTCPEnqueue("net"))
    \/ Step(Drain)

SpecCCS == Init /\ [][NextCCS]_vars /\ WF_vars(CcsPoll) /\ WF_vars(CcsLook) /\ WF_vars(CcsAnswer)


(***************************************************************************)
(* The shim's intercepted calls taken alone: what each returns, and the    *)
(* errno it sets, for every outcome of send_ipc_message.                   *)
(***************************************************************************)
\* the calls the shim forwards to the CCS
ShimOps == {"socket", "bind", "listen", "accept", "connect", "send", "recv"}
\* the flags argument of send and recv (the other calls have none)
ShimFlags == SUBSET {"MSG_DONTWAIT", "MSG_PEEK"}
\* the family of the address given to bind and connect
Families == {"AF_INET", "AF_INET6"}
\* what send_ipc_message comes back with: the CCS's success, one of its error
\* kinds (resp.success is false), or -1 when the control socket fails
IpcOutcomes == {"ok", "error", "timeout", "no-data", "failed"}

\* `send_ipc_message(&msg, &resp) < 0 || !resp.success`
IpcFailed(outcome) == outcome # "ok"

\* the errno an intercepted call sets when its request failed
FailureErrno(op, flags) ==
    CASE op = "socket" -> "ENOTSUP"
      [] op = "bind" -> "EADDRINUSE"
      [] op = "listen" -> "EOPNOTSUPP"
      [] op = "accept" -> "EAGAIN"
      [] op = "connect" -> "ECONNREFUSED"
      [] op = "send" -> "EPIPE"
      [] op = "recv" -> IF "MSG_DONTWAIT" \in flags THEN "EAGAIN" ELSE "ECONNRESET"

\* the connection id get_conn_id finds for the descriptor of the call (0: the
\* descriptor is not the shim's); socket has no descriptor
ShimConnIds == 0..2
\* the domain given to socket
Domains == {"AF_INET", "AF_UNIX"}

\* one intercepted call: socket on a domain that is not AF_INET, and any call
\* on a descriptor that is not the shim's, goes to the real function; bind
\* and connect refuse an address that is not AF_INET before any request;
\* every call maps a failed request to its errno
Intercepted(op, connId, family, flags, outcome) ==
    LET c == [op |-> op, conn_id |-> connId, flags |-> flags]
    IN  IF (op = "socket" /\ family # "AF_INET") \/ (op # "socket" /\ connId = 0)
        THEN c @@ [real |-> TRUE, asked |-> FALSE, outcome |-> "none", ret |-> 0,
                   errno |-> "none"]
        ELSE IF op \in {"bind", "connect"} /\ family # "AF_INET"
        THEN c @@ [real |-> FALSE, asked |-> FALSE, outcome |-> "none", ret |-> -1,
                   errno |-> "EAFNOSUPPORT"]
        ELSE IF IpcFailed(outcome)
        THEN c @@ [real |-> FALSE, asked |-> TRUE, outcome |-> outcome, ret |-> -1,
                   errno |-> FailureErrno(op, flags)]
        ELSE c @@ [real |-> FALSE, asked |-> TRUE, outcome |-> outcome, ret |-> 0,
                   errno |-> "none"]

\* the outcomes the CCS has for a call: the time-outs are those of accept and recv
OutcomesOf(op) ==
    {"ok", "error", "failed"}
    \cup (IF op = "accept" THEN {"timeout"} ELSE {})
    \cup (IF op = "recv" THEN {"no-data"} ELSE {})

\* the arguments a call has: a domain for socket, a descriptor for the others,
\* an address for bind and connect, flags for send and recv
ShimIntercept(op, connId, family, flags, outcome) ==
    /\ outcome \in OutcomesOf(op)
    /\ family \in (IF op = "socket" THEN Domains
                   ELSE IF op \in {"bind", "connect"} THEN Families ELSE {"AF_INET"})
    /\ op = "socket" => connId = 0
    /\ flags # {} => op \in {"send", "recv"}
    /\ call' = Intercepted(op, connId, family, flags, outcome)
    /\ UNCHANGED stackVars

NextErrno ==
    \E op \in ShimOps, connId \in ShimConnIds, family \in Families \cup Domains,
       flags \in ShimFlags, outcome \in IpcOutcomes :
        ShimIntercept(op, connId, family, flags, outcome)

SpecErrno == Init /\ [][NextErrno]_vars


(***************************************************************************)
(* DeliverIncomingPacket on the bytes of a packet: the length checks of    *)
(* the IP header and of the TCP or UDP header come before the parsed       *)
(* packet is looked up in the tables.                                      *)
(***************************************************************************)
\* the bytes of the fixed headers
IPHeaderLen == 20
TCPHeaderLen == 20
UDPHeaderLen == 8

\* the header bytes of a whole packet of this protocol
TransportLen(proto) == IF proto = 17 THEN UDPHeaderLen ELSE TCPHeaderLen
\* a whole packet with a 20-byte IP header: the headers and one byte per payload
FullLen(p) == IPHeaderLen + TransportLen(p.proto) + (IF p.data = NoData THEN 0 ELSE 1)

\* a packet as bytes: what the headers say (p), the number of bytes that
\* arrived (len) and the IP header length field in 32-bit words (ihl)
Raw(p, len, ihl) == [p |-> p, len |-> len, ihl |-> ihl]

\* the packets cut short come without payload
BarePackets ==
    {InPacket(v, proto, s, d, {}, NoData) :
        v \in {4, 6}, proto \in {6, 17, 1}, s \in PeerKeys, d \in LocalKeys}
\* whole packets, packets cut inside the IP header or inside the TCP or UDP
\* header, and packets whose header length field exceeds the packet
RawPackets ==
    {Raw(p, FullLen(p), 5) : p \in InPackets}
    \cup {Raw(p, len, 5) : p \in BarePackets,
                           len \in {2, IPHeaderLen, IPHeaderLen + 7, IPHeaderLen + 19}}
    \cup {Raw(p, FullLen(p), 15) : p \in BarePackets}

\* mutant: the length of the TCP header is not checked
HeaderErrorNoTCP(raw) ==
    IF raw.len < 20 THEN "ErrTooShort"
    ELSE IF raw.p.version # 4 THEN Nil
    ELSE IF raw.len < raw.ihl * 4 THEN "ErrHeaderLength"
    ELSE IF raw.p.proto = 17 /\ raw.len - raw.ihl * 4 < 8 THEN "ErrUDPHeaderShort"
    ELSE Nil

\* the checks DeliverIncomingPacket and the two handlers make on the lengths,
\* in the order of the code, up to the first table lookup
HeaderError(raw) ==
    IF raw.len < 20 THEN "ErrTooShort"
    ELSE IF raw.p.version # 4 THEN Nil                  \* refused by the version check
    ELSE IF raw.len < raw.ihl * 4 THEN "ErrHeaderLength"
    ELSE IF raw.p.proto = 6 /\ raw.len - raw.ihl * 4 < 20 THEN "ErrTCPHeaderShort"
    ELSE IF raw.p.proto = 17 /\ raw.len - raw.ihl * 4 < 8 THEN "ErrUDPHeaderShort"
    ELSE Nil

\* DeliverIncomingPacket(packet): an error of the lengths is returned at once,
\* otherwise the call goes on with the parsed packet
DeliverRaw(t, raw) ==
    /\ Ready(t)
    /\ calls < MaxCalls /\ calls' = calls + 1
    /\ IF HeaderError(raw) # Nil
       THEN /\ thr' = [thr EXCEPT ![t] = Done("DeliverIncomingPacket", 0, HeaderError(raw))]
            /\ UNCHANGED peerSeq
       ELSE DeliverCall(t, raw.p)
    /\ call' = [op |-> "DeliverIncomingPacket", raw |-> raw]
    /\ UNCHANGED <<vnsVars, sent, emitted, delivered, received, dropped, closedIds,
                   wgVars, objVars>>

NextDeliver ==
    \/ \E t \in Apps, connType \in Types : Begin(CreateConnection(t, connType))
    \/ \E t \in Apps, connID \in Issued, addr \in AnyAddrs :
           Begin(BindConnection(t, connID, addr))
    \/ \E t \in Apps, connID \in Issued : Begin(ListenConnection(t, connID))
    \/ \E t \in Apps, connID \in Issued, addr \in AnyRemotes :
           Begin(ConnectLookup(t, connID, addr))
    \/ \E t \in Apps : Step(ConnectSet(t))
    \/ \E t \in Apps : Step(ConnectSendSyn(t))
    \/ \E raw \in RawPackets : DeliverRaw("net", raw)
    \/ Step(DeliverParse("net"))
    \/ Step(DeliverTCPSyn("net"))
    \/ Step(DeliverTCPSynAck("net"))
    \/ Step(DeliverTCPFind("net"))
    \/ Step(DeliverTCPEnqueue("net"))
    \/ Step(DeliverUDPEnqueue("net"))
    \/ Step(Drain)

SpecDeliver == Init /\ [][NextDeliver]_vars


(***************************************************************************)
(* CreateConnection's ids taken alone: the 32-bit counter, the keys of the *)
(* connection table, and the creations under way.  CreateConnection takes  *)
(* its id with an atomic add and stores the connection under the lock in   *)
(* a second step, so that concurrent creations interleave between the two. *)
(***************************************************************************)
\* a uint32 is held as its two 16-bit halves (the checker's integers are
\* narrower than 2^32)
Half == 65536
U32(hi, lo) == [hi |-> hi, lo |-> lo]
\* number of creations in one run
MaxCreates == 5
\* the counter after construction, and after 2^32 - 3 earlier creations, each
\* closed again
CountersReached == {U32(0, 0), U32(Half - 1, Half - 3)}

\* atomic.AddUint32(&s.nextConnID, 1)
AddUint32(n) ==
    IF n.lo + 1 < Half THEN U32(n.hi, n.lo + 1) ELSE U32((n.hi + 1) % Half, 0)
\* the order of two uint32
Less32(a, b) == a.hi < b.hi \/ (a.hi = b.hi /\ a.lo < b.lo)

\* the ids taken and not yet stored, and the last id returned with whether
\* the table held it already
NoIds == [op |-> "ids", taken |-> {}, last |-> U32(0, 0), held |-> FALSE, n |-> 0]

InitIds ==
    /\ nextConnID \in CountersReached
    /\ InitRest

\* everything but the counter, the table's keys and the record of the ids
notIdVars == <<conns, listeningSockets, listeners, outgoingPackets, mu, handler, panicked,
               thr, histVars, wgVars, objVars>>
Ids == IF call.op = "ids" THEN call ELSE NoIds

\* CreateConnection, first step: the id
IdTake ==
    /\ calls < MaxCreates /\ calls' = calls + 1
    /\ nextConnID' = AddUint32(nextConnID)
    /\ call' = [Ids EXCEPT !.taken = @ \cup {AddUint32(nextConnID)}]
    /\ UNCHANGED <<connections, notIdVars>>

\* CreateConnection, second step: s.connections[connID] = conn under the
\* lock, and the return
IdStore(id) ==
    /\ id \in Ids.taken
    /\ connections' = connections \cup {id}
    /\ call' = [Ids EXCEPT !.taken = @ \ {id}, !.last = id,
                           !.held = id \in connections, !.n = @ + 1]
    /\ UNCHANGED <<nextConnID, calls, notIdVars>>

\* CloseConnection deletes the key
IdClose(id) ==
    /\ id \in connections
    /\ connections' = connections \ {id}
    /\ call' = Ids
    /\ UNCHANGED <<nextConnID, calls, notIdVars>>

NextIds ==
    \/ IdTake
    \/ \E id \in Ids.taken : IdStore(id)
    \/ \E id \in connections : IdClose(id)

SpecIds == InitIds /\ [][NextIds]_vars


(***************************************************************************)
(* The stack called by two threads at once (the handlers of two control    *)
(* connections): one connection is made and connected, and SendData and    *)
(* CloseConnection are called on it from either thread.                    *)
(***************************************************************************)
\* the two calling threads
Callers == Threads

NextSendClose ==
    \/ \E t \in Callers : Begin(CreateConnection(t, "tcp"))
    \/ \E t \in Callers, connID \in Issued, addr \in RemoteAddrs("tcp") :
           Begin(ConnectLookup(t, connID, addr))
    \/ \E t \in Callers : Step(ConnectSet(t))
    \/ \E t \in Callers : Step(ConnectSendSyn(t))
    \/ \E t \in Callers, connID \in Issued, data \in Payloads :
           Begin(SendLookup(t, connID, data))
    \/ \E t \in Callers : Step(SendQueue(t))
    \/ \E t \in Callers, connID \in Issued : Begin(CloseConnection(t, connID))
    \/ \E t \in Callers : Step(CloseSendFin(t))
    \/ \E i \in ConnIDs : Step(HandlerRange(i))
    \/ \E i \in ConnIDs : Step(HandlerSend(i))
    \/ Step(Drain)

SpecSendClose == Init /\ [][NextSendClose]_vars


(***************************************************************************)
(* The tunnel's MemoryTUN (tunnel.go) taken alone: Write called by the     *)
(* device's threads, Close, and the reader of outbound.                    *)
(***************************************************************************)
\* number of Writes in one run
MaxWrites == 4
\* scaled capacity of MemoryTUN.outbound (100 in tunnel.go:53)
MTunCap == 2

notMtunVars == <<vnsVars, thr, histVars, calls, wgVars, call, fwdVars, relay, ipc, shimVars>>

\* Write, first part: the flag is read under the read lock, which is
\* released before anything else is done
MWriteCheck(t) ==
    /\ ~mtun.panicked /\ mtun.pc[t] = "idle" /\ mtun.writes < MaxWrites
    /\ mtun' = IF mtun.closed
               THEN [mtun EXCEPT !.ret[t] = "ErrTunClosed", !.writes = @ + 1]
               ELSE [mtun EXCEPT !.pc[t] = "select", !.pkt[t] = mtun.writes + 1,
                                 !.ret[t] = Nil, !.writes = @ + 1]
    /\ UNCHANGED notMtunVars

\* Write, second part: the select on outbound, with its default branch
MWriteSelect(t) ==
    /\ ~mtun.panicked /\ mtun.pc[t] = "select"
    /\ mtun' = IF mtun.chClosed
               THEN \* send on a closed channel
                    [mtun EXCEPT !.panicked = TRUE]
               ELSE [mtun EXCEPT !.outbound = IF HasRoom(@, MTunCap)
                                              THEN Append(@, mtun.pkt[t]) ELSE @,
                                 !.pc[t] = "idle", !.ret[t] = "ok"]
    /\ UNCHANGED notMtunVars

\* Close: under the write lock the flag is set and the channels are closed
MClose ==
    /\ ~mtun.panicked /\ ~mtun.closed
    /\ mtun' = [mtun EXCEPT !.closed = TRUE, !.chClosed = TRUE]
    /\ UNCHANGED notMtunVars

\* the reader of outbound takes a packet
MRecv ==
    /\ ~mtun.panicked /\ mtun.outbound # <<>>
    /\ mtun' = [mtun EXCEPT !.outbound = Tail(@)]
    /\ UNCHANGED notMtunVars

NextMtun ==
    \/ \E t \in TunWriters : MWriteCheck(t)
    \/ \E t \in TunWriters : MWriteSelect(t)
    \/ MClose
    \/ MRecv

SpecMtun == Init /\ [][NextMtun]_vars


(***************************************************************************)
(* Properties.                                                             *)
(***************************************************************************)
\* the operations that take a connection id
IdOps == {"BindConnection", "ListenConnection", "ConnectConnection", "SendData",
          "ReceiveData", "CloseConnection"}

\* thread t starts, in this step, an operation of IdOps on connection id
Starts(t, id) ==
    /\ thr[t].step = "done"
    /\ thr'[t] # thr[t]
    /\ thr'[t].op \in IdOps
    /\ thr'[t].id = id

\* C1: once CloseConnection(id) has succeeded, id is not in the connection
\* table, and every operation started on id afterwards (a second close
\* included) returns the not-found error and changes nothing of the stack.
C1_ClosedIdUnknown ==
    /\ [](closedIds \cap connections = {})
    /\ [][\A t \in Apps : \A id \in closedIds :
             Starts(t, id) => /\ thr'[t] = Done(thr'[t].op, id, "ErrNotFound")
                              /\ UNCHANGED <<vnsVars, histVars>>]_vars

\* C1 witness: a second CloseConnection on a closed id has returned not-found
C1_Witness ==
    \E t \in Apps : \E id \in closedIds :
        thr[t] = Done("CloseConnection", id, "ErrNotFound")

\* a connection in the bound state: a local endpoint, neither listening nor
\* connected
IsBound(c) == c.State = "created" /\ c.LocalAddr # NilAddr

\* C2 (as claimed): a connection enters `listening` only from the bound state,
\* enters `connected` only from created or bound, and a closed connection
\* never changes state again.
C2_StateMachine ==
    [][\A i \in Issued :
          /\ (conns'[i].State = "listening" /\ conns[i].State # "listening")
                => IsBound(conns[i])
          /\ (conns'[i].State = "connected" /\ conns[i].State # "connected")
                => conns[i].State = "created"
          /\ i \in closedIds => conns'[i].State = conns[i].State]_vars

\* C3 (as claimed): delivery of a peer's packet never sends on a closed
\* inbound queue, whatever CloseConnection does meanwhile.
C3_DeliveryNeverPanics == panicked # "DeliverIncomingPacket"

\* a sequence of numbers that increases
Increasing(q) == \A m, n \in 1..Len(q) : m < n => q[m] < q[n]

C5_SynCreatesOneAccepted ==
    [][(thr["net"].step = "tcp_syn" /\ thr'["net"].step = "tcp_synack") =>
          LET l == thr["net"].id
              packet == thr["net"].pkt
          IN  IF HasRoom(listeners[l].AcceptQueue, AcceptCap)
              THEN \E c \in ConnIDs \ connections :
                      /\ connections' = connections \cup {c}
                      /\ conns'[c].State = "connected"
                      /\ String(conns'[c].LocalAddr) = packet.dst
                      /\ String(conns'[c].RemoteAddr) = packet.src
                      /\ listeners'[l].AcceptQueue = Append(listeners[l].AcceptQueue, c)
              ELSE connections' = connections /\ listeners' = listeners]_vars

\* the steps that send on outgoingPackets
SendsOutgoing(t) == thr[t].step \in {"syn", "fin", "tcp_synack"}

\* C6 (as claimed): no operation waits: none is at a send on a full
\* outgoingPackets, and none waits holding the stack lock.
C6_NoOperationWaits ==
    /\ mu = "free"
    /\ \A t \in Threads : SendsOutgoing(t) => HasRoom(outgoingPackets, OutCap)

\* the payload the connection's goroutine has taken and not yet sent
InFlight(i) == IF handler[i].pc = "send" THEN <<handler[i].pkt.data>> ELSE <<>>

\* C7: the payloads of the data packets a connection has put on
\* outgoingPackets, then the one its goroutine holds, then those queued in
\* OutgoingData, are exactly the payloads SendData accepted, each once and in
\* the order of the sends.
C7_SendEmitsOnce ==
    \A i \in ConnIDs :
        emitted[i] \o InFlight(i) \o conns[i].OutgoingData = sent[i]

\* C7 witness: two sends succeeded and both packets are out, in order
C7_Witness == \E i \in ConnIDs : sent[i] = <<1, 2>> /\ emitted[i] = <<1, 2>>

\* C9 (as claimed): BindConnection(id, E) fails with address-in-use and changes
\* nothing while another live connection of the same transport is bound to E.
C9_BindAddressInUse ==
    [][\A t \in Apps : \A id \in connections :
          (/\ Starts(t, id)
           /\ thr'[t].op = "BindConnection"
           /\ \E j \in connections \ {id}, E \in BindAddrs(conns[id].Type) :
                  /\ conns[j].Type = conns[id].Type /\ conns[j].LocalAddr = E
                  /\ conns'[id].LocalAddr = E \/ thr'[t].addr = E)
          => (thr'[t].ret = "ErrAddrInUse" /\ conns' = conns)]_vars

\* C10 (as claimed): an entry of the listener table is never replaced: a
\* listen makes no second listener for an endpoint that has one, does not
\* discard its accept queue, and a listener of the other transport does not
\* take over the entry.
\* C8 (as claimed): once Stop has closed stopChan and waits for the two routing
\* goroutines, both exit and Stop returns with the device and the memory TUN
\* closed (or the process has died of a panic), whether or not a decrypted
\* packet is pending.
C8_StopReturns ==
    (stopper = "wait")
        ~> \/ /\ stopper = "done" /\ pump.in = "exit" /\ pump.out = "exit"
              /\ deviceClosed /\ tunClosed
           \/ ~Running

C10_ListenerKept ==
    [][\A k \in AddrKeys :
          listeningSockets[k] # 0 => listeningSockets'[k] \in {0, listeningSockets[k]}]_vars

\* thread t ends, in this step, the operation op it was in at the given step
Ends(t, op, step) ==
    /\ thr[t].op = op /\ thr[t].step = step
    /\ thr'[t].op = op /\ thr'[t].step = "done"

\* C11: the inbound queue of a connection never holds more than its capacity;
\* a payload delivered while it is full is dropped and the queued payloads are
\* kept as they are; ReceiveData returns the oldest queued payload and leaves
\* the others in order.
C11_InboundOverflowDrops ==
    /\ [](\A i \in ConnIDs : Len(conns[i].IncomingData) <= ChanCap)
    /\ [][\A t \in Threads :
            LET q == conns[thr[t].id].IncomingData
            IN  /\ (/\ \/ Ends(t, "DeliverIncomingPacket", "tcp_enqueue")
                        \/ Ends(t, "DeliverIncomingPacket", "udp_enqueue")
                     /\ Len(q) >= ChanCap)
                        => conns'[thr[t].id].IncomingData = q
                /\ (Ends(t, "ReceiveData", "dequeue") /\ q # <<>>)
                        => /\ thr'[t].data = Head(q)
                           /\ conns'[thr[t].id].IncomingData = Tail(q)]_vars

\* C11 witness: the second payload found the queue full and was dropped, and
\* ReceiveData then returned the first
C11_Witness ==
    \E i \in ConnIDs :
        /\ dropped[i] = 1 /\ delivered[i] = <<1, 2>>
        /\ received[i] = <<1>> /\ conns[i].IncomingData = <<>>

\* C12 (as claimed): a payload dropped because the inbound queue of a TCP
\* connection is full is counted: the step that drops it changes the state of
\* the stack, where a drop counter would be.
C12_DropCounted ==
    [][\A t \in Threads :
          (/\ Ends(t, "DeliverIncomingPacket", "tcp_enqueue")
           /\ Len(conns[thr[t].id].IncomingData) >= ChanCap)
              => vnsVars' # vnsVars]_vars

\* thread t returns, in this step, from ConnectConnection with success
ConnectReturns(t) ==
    \/ Ends(t, "ConnectConnection", "assign")
    \/ Ends(t, "ConnectConnection", "syn")

\* C13: when ConnectConnection(id, R) returns on an existing connection, the
\* connection's remote endpoint is R and its state `connected`; the call has
\* put exactly one packet on outgoingPackets, a SYN addressed to R, if the
\* connection is TCP, and none if it is UDP; on an unknown id it returns the
\* not-found error and changes nothing.
C13_ConnectEmitsSyn ==
    [][\A t \in Apps :
          LET id == thr[t].id
              R == thr[t].addr
          IN  /\ ConnectReturns(t) =>
                    /\ conns'[id].RemoteAddr = R
                    /\ conns'[id].State = "connected"
                    /\ IF conns[id].Type = "tcp"
                       THEN \E packet \in {createTCPPacket(conns'[id], NoData, TRUE, FALSE, FALSE)} :
                               /\ packet.flags = {"SYN"} /\ packet.dst = String(R)
                               /\ outgoingPackets' = Append(outgoingPackets, packet)
                       ELSE outgoingPackets' = outgoingPackets
              /\ (thr'[t] # thr[t] /\ thr'[t].op = "ConnectConnection"
                  /\ ~ConnectReturns(t))
                    => outgoingPackets' = outgoingPackets
              /\ (thr[t].step = "done" /\ thr'[t] # thr[t]
                  /\ thr'[t].op = "ConnectConnection" /\ thr'[t].id \notin connections)
                    => /\ thr'[t] = Done("ConnectConnection", thr'[t].id, "ErrNotFound")
                       /\ UNCHANGED vnsVars]_vars

\* C13 witness: a connect of a TCP connection and a connect of a UDP connection
\* have returned, with the one SYN on outgoingPackets
C13_Witness ==
    /\ \E t \in Apps : thr[t] = Done("ConnectConnection", thr[t].id, "ok")
    /\ \E i, j \in connections :
          /\ conns[i].Type = "tcp" /\ conns[i].State = "connected"
          /\ conns[j].Type = "udp" /\ conns[j].State = "connected"
          /\ outgoingPackets = <<createTCPPacket(conns[i], NoData, TRUE, FALSE, FALSE)>>

\* C14: CloseConnection puts exactly one packet, a FIN, on outgoingPackets when
\* the connection is TCP and connected, and no packet in every other case.
C14_CloseEmitsFin ==
    [][\A t \in Apps :
          LET id == IF thr[t].step = "done" THEN thr'[t].id ELSE thr[t].id
          IN  /\ (/\ thr'[t] # thr[t]
                  /\ thr'[t] = Done("CloseConnection", id, "ok"))
                    => IF conns[id].Type = "tcp" /\ conns[id].State = "connected"
                       THEN \E packet \in {createTCPPacket(conns[id], NoData, FALSE, FALSE, TRUE)} :
                               /\ packet.flags = {"FIN"}
                               /\ outgoingPackets' = Append(outgoingPackets, packet)
                       ELSE outgoingPackets' = outgoingPackets
              /\ (thr'[t] # thr[t] /\ thr'[t].op = "CloseConnection"
                  /\ thr'[t].step # "done")
                    => outgoingPackets' = outgoingPackets]_vars

\* C14 witness: a connected TCP connection was closed and its FIN is on
\* outgoingPackets, after a close of a connection that was not connected
C14_Witness ==
    \E i, j \in closedIds :
        /\ conns[i].Type = "tcp" /\ conns[i].State = "connected"
        /\ conns[j].State # "connected"
        /\ outgoingPackets = <<createTCPPacket(conns[i], NoData, FALSE, FALSE, TRUE)>>

\* C15: ConnectConnection on a connection without a local endpoint gives it the
\* port 30000 + (id mod 30000), which depends on the id alone and lies in
\* 30000..60000; a bound connection keeps its endpoint.
C15_EphemeralPort ==
    call.op = "ConnectConnection" =>
        IF call.conn.LocalAddr = NilAddr
        THEN /\ call.ret.LocalAddr.port = 30000 + (call.id % 30000)
             /\ call.ret.LocalAddr.port \in 30000..60000
             /\ call.ret.LocalAddr.net = call.conn.Type
        ELSE call.ret.LocalAddr = call.conn.LocalAddr

\* C15 witness: id 60001 on an unbound connection got port 30001
C15_Witness ==
    /\ call.op = "ConnectConnection"
    /\ call.id = 60001 /\ call.conn.LocalAddr = NilAddr
    /\ call.ret.LocalAddr.port = 30001

\* C16 (as claimed): every packet routeOutgoingPackets has taken from
\* outgoingPackets is appended to the memory TUN's outbound queue, while the
\* TUN and the device are open.
C16_PumpForwardsAll ==
    [][(/\ pump.out = "inject" /\ pump'.out = "select"
        /\ ~tunClosed /\ ~deviceClosed)
          => tunOutbound' = Append(tunOutbound, pump.pkt)]_vars

\* C17 (as claimed): once the memory TUN is closed, a Close returns no error
\* and changes nothing, and every Read and Write returns an error or EOF and
\* moves no packet, whatever was queued before the close.
C17_ClosedTunTransfersNothing ==
    [][tunClosed =>
          /\ call'.op = "Close" =>
                /\ call'.err = Nil
                /\ UNCHANGED <<tunInbound, tunOutbound, tunClosed>>
          /\ call'.op \in {"Read", "Write"} =>
                /\ call'.err # Nil
                /\ UNCHANGED <<tunInbound, tunOutbound>>]_vars

\* C18: MemoryTUN.Write can be called in every state (it waits for nothing);
\* inbound never holds more than its capacity; on an open TUN the packets that
\* find inbound full are dropped and still counted in the number written,
\* with no error.
C18_WriteNeverBlocks ==
    /\ [](Len(tunInbound) <= TunCap)
    /\ [](\A bufs \in TunBufs : ENABLED TunWrite(bufs))
    /\ [][(call'.op = "Write" /\ ~tunClosed) =>
             /\ call'.n = Len(call'.bufs) /\ call'.err = Nil
             /\ tunInbound' = tunInbound \o
                    SubSeq(call'.bufs, 1, Min(Len(call'.bufs), TunCap - Len(tunInbound)))]_vars

\* C18 witness: a Write of two packets on an open TUN with room for one
\* returned 2 and queued the first
C18_Witness ==
    /\ ~tunClosed /\ call.op = "Write"
    /\ Len(call.bufs) = 2 /\ call.n = 2
    /\ Len(tunInbound) = TunCap /\ tunInbound[TunCap] = call.bufs[1]

\* the policies <<peer, policy>> of a configuration (positions counted from 1)
\* whose CIDR contains the address, whose protocol is "any" or the given one,
\* and whose port range contains the port
MatchingPolicies(peers, addr, dstPort, protocol) ==
    {c \in UNION {{<<i, j>> : j \in 1..Len(peers[i].RoutingPolicies)} : i \in 1..Len(peers)} :
        LET policy == peers[c[1]].RoutingPolicies[c[2]]
            prefix == ParsePrefix(policy.DestinationCIDR)
        IN  /\ prefix.err = Nil /\ Contains(prefix, addr)
            /\ policy.Protocol \in {"any", protocol}
            /\ policy.PortRange.Start <= dstPort /\ dstPort <= policy.PortRange.End}

\* policy c comes before policy d: a longer prefix, then a higher priority,
\* then the earlier place in the configuration
Precedes(peers, c, d) ==
    LET pc == peers[c[1]].RoutingPolicies[c[2]]
        pd == peers[d[1]].RoutingPolicies[d[2]]
        bc == ParsePrefix(pc.DestinationCIDR).bits
        bd == ParsePrefix(pd.DestinationCIDR).bits
    IN  \/ bc > bd
        \/ bc = bd /\ pc.Priority > pd.Priority
        \/ bc = bd /\ pc.Priority = pd.Priority
           /\ (c[1] < d[1] \/ (c[1] = d[1] /\ c[2] < d[2]))

\* the peer index (from 0) that owns the first of the matching policies
SelectedPeer(peers, addr, dstPort, protocol) ==
    LET m == MatchingPolicies(peers, addr, dstPort, protocol)
    IN  (CHOOSE c \in m : \A d \in m \ {c} : Precedes(peers, c, d))[1] - 1

\* the lookups listed for the three-peer configurations, with the peer index
Lookup(addr, dstPort, protocol, peer) ==
    [dstIP |-> addr, dstPort |-> dstPort, protocol |-> protocol, peer |-> peer]
ListedLookups(peers) ==
    {Lookup(<<8, 8, 8, 8>>, 53, "udp", 0), Lookup(<<192, 168, 1, 100>>, 80, "tcp", 1),
     Lookup(<<1, 2, 3, 4>>, 8080, "tcp", 1), Lookup(<<10, 1, 2, 3>>, 3000, "tcp", 2),
     Lookup(<<192, 168, 1, 100>>, 22, "tcp", 0), Lookup(<<1, 2, 3, 4>>, 8080, "udp", 0)}
    \cup (IF peers = TestRoutingEnginePeers
          THEN {Lookup(<<192, 168, 1, 100>>, 443, "tcp", 1)} ELSE {})

\* C19: FindPeerForDestination returns the peer that owns the policy which,
\* among the policies whose CIDR contains the destination, whose protocol is
\* "any" or the given protocol and whose port range contains the port, has
\* the longest prefix, then the highest priority, then the earliest place;
\* and for the two three-peer configurations it returns the listed peers.
C19_BestPolicyPeer ==
    call.op = "FindPeerForDestination" =>
        /\ MatchingPolicies(call.peers, call.dstIP, call.dstPort, call.protocol) # {}
               => call.ret = SelectedPeer(call.peers, call.dstIP, call.dstPort, call.protocol)
        /\ call.peers \in {TestRoutingEnginePeers, ThreePeers} =>
               \A l \in ListedLookups(call.peers) :
                   (l.dstIP = call.dstIP /\ l.dstPort = call.dstPort
                    /\ l.protocol = call.protocol) => call.ret = l.peer

\* the first peer index (from 0) in configuration order one of whose allowed
\* prefixes contains the address, or -1
FirstAllowedPeer(peers, addr) ==
    LET holds == {i \in 1..Len(peers) :
                     \E k \in 1..Len(peers[i].AllowedIPs) :
                         /\ ParsePrefix(peers[i].AllowedIPs[k]).err = Nil
                         /\ Contains(ParsePrefix(peers[i].AllowedIPs[k]), addr)}
    IN  IF holds = {} THEN -1 ELSE (CHOOSE i \in holds : \A k \in holds : i <= k) - 1

\* C20: when no policy matches a lookup of a port above 0,
\* FindPeerForDestination returns the first peer in configuration order whose allowed prefixes contain the destination, or
\* -1 when none does; and a lookup repeated with the same configuration and
\* arguments returns the same peer.
C20_FallbackFirstAllowed ==
    [][call'.op = "FindPeerForDestination" =>
          /\ (/\ MatchingPolicies(call'.peers, call'.dstIP, call'.dstPort, call'.protocol) = {}
              /\ call'.dstPort > 0)
                 => call'.ret = FirstAllowedPeer(call'.peers, call'.dstIP)
          /\ (/\ call.op = "FindPeerForDestination"
              /\ call.peers = call'.peers /\ call.dstIP = call'.dstIP
              /\ call.dstPort = call'.dstPort /\ call.protocol = call'.protocol)
                 => call.ret = call'.ret]_vars

\* among the matching policies with the longest prefix, the one listed first in
\* the configuration, as the peer index (from 0) that declares it
FirstListedPeer(peers, addr, dstPort, protocol) ==
    LET m == MatchingPolicies(peers, addr, dstPort, protocol)
        bits(c) == ParsePrefix(peers[c[1]].RoutingPolicies[c[2]].DestinationCIDR).bits
        top == {c \in m : \A d \in m : bits(c) >= bits(d)}
    IN  (CHOOSE c \in top : \A d \in top \ {c} :
             c[1] < d[1] \/ (c[1] = d[1] /\ c[2] < d[2]))[1] - 1

\* C21: in a configuration built by the parser, of the routes of the same
\* CIDR specificity that match a destination the one listed first is selected.
C21_FirstListedRouteWins ==
    (/\ call.op = "FindPeerForDestination"
     /\ \A i \in 1..Len(call.peers) : call.peers[i] \in ParsedPeers
     /\ MatchingPolicies(call.peers, call.dstIP, call.dstPort, call.protocol) # {})
        => call.ret = FirstListedPeer(call.peers, call.dstIP, call.dstPort, call.protocol)

\* the address a command-line string denotes, IPv6 included
AddrOf(s) ==
    IF s = <<"fd00", ":", ":", "1">>
    THEN [addr |-> <<253, 0, 0, 0, 0, 0, 0, 0, 0, 0, 0, 0, 0, 0, 0, 1>>, err |-> Nil]
    ELSE ParseAddr(Text(s))

\* the first peer (from 1) one of whose allowed prefixes contains the address
\* the string denotes, or 0
Owner(peers, ip) ==
    LET own == {i \in 1..Len(peers) :
                   \E k \in 1..Len(peers[i].AllowedIPs) :
                       /\ ParsePrefix(peers[i].AllowedIPs[k]).err = Nil
                       /\ AddrOf(ip).err = Nil
                       /\ Contains(ParsePrefix(peers[i].AllowedIPs[k]), AddrOf(ip).addr)}
    IN  IF own = {} THEN 0 ELSE CHOOSE i \in own : \A k \in own : i <= k

\* what is asked for: the exit node as a 0.0.0.0/0 route, then each route as
\* its CIDR and peer IP when it has the form CIDR:peerIP
Asked(exitNode, routes) ==
    (IF exitNode # <<>> THEN <<[form |-> TRUE, cidr |-> "0.0.0.0/0", ip |-> exitNode]>>
     ELSE <<>>)
    \o [n \in 1..Len(routes) |->
           IF Len(Split(routes[n])) = 2
           THEN [form |-> TRUE, cidr |-> Text(TrimSpace(Split(routes[n])[1])),
                 ip |-> TrimSpace(Split(routes[n])[2])]
           ELSE [form |-> FALSE, cidr |-> "", ip |-> <<>>]]

\* C22: ApplyCLIRoutes returns an error exactly when a route is malformed, has
\* an invalid CIDR, or names an IP that no peer's allowed prefixes contain;
\* otherwise each peer has, after its earlier policies, one any-protocol
\* all-ports policy for the exit node (0.0.0.0/0) and for each route whose IP
\* its allowed prefixes are the first to contain, in the order supplied.
C22_CLIRoutesApplied ==
    call.op = "ApplyCLIRoutes" =>
        LET asked == Asked(call.exitNode, call.routes)
            good(a) == a.form /\ ParsePrefix(a.cidr).err = Nil /\ Owner(call.peers, a.ip) # 0
        IN  /\ call.ret.err = Nil <=> \A n \in 1..Len(asked) : good(asked[n])
            /\ call.ret.err = Nil =>
                   /\ Len(call.ret.peers) = Len(call.peers)
                   /\ \A i \in 1..Len(call.peers) :
                          LET old == call.peers[i].RoutingPolicies
                              new == call.ret.peers[i].RoutingPolicies
                              mine == SelectSeq(asked, LAMBDA a : Owner(call.peers, a.ip) = i)
                          IN  /\ call.ret.peers[i].AllowedIPs = call.peers[i].AllowedIPs
                              /\ Len(new) = Len(old) + Len(mine)
                              /\ SubSeq(new, 1, Len(old)) = old
                              /\ \A j \in 1..Len(mine) :
                                     /\ new[Len(old) + j].DestinationCIDR = mine[j].cidr
                                     /\ new[Len(old) + j].Protocol = "any"
                                     /\ new[Len(old) + j].PortRange = [Start |-> 1, End |-> 65535]

\* C23: the port forwarder holds at most one open listener per port, its
\* open listeners are those of its table, all for ports of BIND messages it
\* received, and a BIND for a port already in the table changes nothing.
C23_OneListenerPerBoundPort ==
    [][/\ \A l, m \in pfOpen' : l.port = m.port => l = m
       /\ pfOpen' = {pfListeners'[p] : p \in DOMAIN pfListeners'}
       /\ \A p \in DOMAIN pfListeners' :
              /\ pfListeners'[p].port = p
              /\ \E n \in 1..Len(pfBinds') : pfBinds'[n].port = p
       /\ (/\ pfRun = "select" /\ msgChan # <<>> /\ msgChan' = Tail(msgChan)
           /\ (Head(msgChan).Type # "BIND" \/ Head(msgChan).Port \in DOMAIN pfListeners))
              => UNCHANGED <<pfListeners, pfOpen>>]_vars

\* a BIND for a port the table held was received, and so was a message that
\* is no BIND, and one listener is open
C23_Witness ==
    /\ \E n \in 1..Len(pfBinds) : pfBinds[n].listening
    /\ pfSent > Len(pfBinds) /\ msgChan = <<>>
    /\ Cardinality(pfOpen) = 1

\* C24: once the context is cancelled, Run closes every listener, empties the
\* table and returns, also when msgChan was closed before.
C24_CancelStopsRun ==
    ctxDone ~> (pfRun = "returned" /\ pfListeners = <<>> /\ pfOpen = {})

\* Run returned after a cancellation that found the channel closed and a
\* listener open
C24_Witness ==
    /\ pfRun = "returned" /\ msgClosed /\ pfListeners = <<>> /\ pfOpen = {}
    /\ \E n \in 1..Len(pfBinds) : pfBinds[n].listening

\* C25: when both copies of an accepted connection have ended, every byte a
\* far end sent has been written to the other far end, in order.
C25_RelayDeliversAll ==
    (relay.state = "open" /\ relay.up = "done" /\ relay.down = "done")
        => relay.lGot = relay.wSent /\ relay.wGot = relay.lSent

\* the messages of connection c (those naming its ports) in a sequence
OfConn(q, c) == SelectSeq(q, LAMBDA m : m.Port \div 100 = c)

\* C26: no control connection is closed by a line written on it, and once
\* the lines of a connection are all scanned, the messages sent on msgChan
\* for it are the messages written on it as valid JSON, in the order written,
\* but for those that found the channel full.
C26_LinesDeliveredInOrder ==
    \A c \in IpcConns :
        /\ ~ipc.conns[c].closed
        /\ ipc.conns[c].in = <<>> =>
               OfConn(ipc.queued, c)
                   = SelectSeq(ipc.conns[c].wrote,
                               LAMBDA m : \A k \in 1..Len(ipc.conns[c].full) :
                                              ipc.conns[c].full[k] # m)

\* C27: every descriptor socket() returned and close() was not yet called on
\* is at least 1000 and maps to the connection id the CCS returned for it, and
\* no two such descriptors map to the same connection id.
C27_DescriptorOwnsConnection ==
    /\ \A d \in live : d.fd >= FdBase /\ get_conn_id(d.fd) = d.conn
    /\ \A d, e \in live : get_conn_id(d.fd) = get_conn_id(e.fd) => d = e

\* C28: when close() writes its close request on the control socket, the
\* descriptor's entry of the table is already cleared.
C28_CloseClearsBeforeRequest ==
    [][\A t \in ShimThreads :
          (/\ shimThr[t].pc = "write" /\ shimThr[t].op = "close"
           /\ shimThr'[t].pc = "read")
              => get_conn_id(shimThr[t].fd)' = 0]_vars

\* C29: every thread reads from the control socket the response to the
\* request it wrote.
C29_OwnResponse ==
    [][\A t \in ShimThreads :
          (shimThr[t].pc = "read" /\ shimThr'[t].pc = "finish")
              => shimThr'[t].raw.re = shimThr[t].req]_vars

\* C30: the request written for send(fd, buf, len) carries the connection id
\* of fd and the bytes of buf, and recv returns the payload of the response
\* it read.
C30_PayloadCarried ==
    [][\A t \in ShimThreads :
          /\ (/\ shimThr[t].pc = "write" /\ shimThr[t].op = "send"
              /\ shimThr'[t].pc = "read")
                 => LET json == sockOut'[Len(sockOut')].json
                    IN  /\ "conn_id" \in DOMAIN json /\ json.conn_id = shimThr[t].msg.conn_id
                        /\ "data" \in DOMAIN json /\ json.data = shimThr[t].msg.data
          /\ (/\ shimThr[t].pc = "finish" /\ shimThr[t].op = "recv"
              /\ shimThr'[t].pc = "idle" /\ "data" \in DOMAIN shimThr[t].raw.text)
                 => shimThr'[t].ret = shimThr[t].raw.text.data]_vars

MappedErrno(c) ==
    CASE c.op = "socket" -> "ENOTSUP"
      [] c.op = "bind" -> "EADDRINUSE"
      [] c.op = "listen" -> "EOPNOTSUPP"
      [] c.op = "connect" -> "ECONNREFUSED"
      [] c.op = "send" -> "EPIPE"
      [] OTHER -> IF "MSG_DONTWAIT" \in c.flags THEN "EAGAIN" ELSE "ECONNRESET"

\* C32: an intercepted call whose request failed sets one errno: ENOTSUP for
\* socket, EADDRINUSE for bind, EOPNOTSUPP for listen, ECONNREFUSED for
\* connect, EPIPE for send; a recv or accept that ran out of its time budget
\* sets EAGAIN only when the call carries a non-blocking hint, and ECONNRESET
\* otherwise.
C32_ErrnoMapping ==
    call.op \in ShimOps /\ call.asked /\ call.ret = -1 =>
        /\ call.op \notin {"accept", "recv"} => call.errno = MappedErrno(call)
        /\ call.outcome \in {"timeout", "no-data"} => call.errno = MappedErrno(call)

\* thread t returns, in this step, from operation op on connection id
Returns(t, op, id) ==
    /\ thr'[t] # thr[t]
    /\ thr'[t].op = op /\ thr'[t].step = "done" /\ thr'[t].id = id

\* C33: an operation that is invalid for the connection's state fails and
\* changes nothing: ListenConnection on a connection with no local endpoint
\* returns an error, creates no listener and leaves the state `created`;
\* SendData on a connection that is not `connected` returns an error and
\* queues nothing; SendData on a connection whose outbound queue is full
\* returns queue-full without waiting.
C33_InvalidOperationFails ==
    /\ [][\A t \in Apps : \A id \in connections :
            /\ Returns(t, "ListenConnection", id) /\ conns[id].LocalAddr = NilAddr =>
                   /\ thr'[t].ret = "ErrNotBound"
                   /\ UNCHANGED <<vnsVars, histVars>>
                   /\ conns[id].State = "created"
            /\ Returns(t, "SendData", id) /\ conns[id].State # "connected" =>
                   /\ thr'[t].ret = "ErrNotConnected"
                   /\ UNCHANGED <<vnsVars, histVars>>
            /\ Returns(t, "SendData", id) /\ conns[id].State = "connected"
               /\ Len(conns[id].OutgoingData) = ChanCap =>
                   /\ thr'[t].ret = "ErrBufferFull"
                   /\ UNCHANGED <<vnsVars, histVars>>]_vars
    /\ [](\A t \in Apps : At(t, "SendData", "queue") => ENABLED Step(SendQueue(t)))

\* SendData has returned queue-full on one connection after ListenConnection
\* was refused on another, which is still `created` and has no listener
C33_Witness ==
    \E t \in Apps : \E id, other \in connections :
        /\ thr[t].op = "SendData" /\ thr[t].ret = "ErrBufferFull" /\ thr[t].id = id
        /\ Len(conns[id].OutgoingData) = ChanCap
        /\ conns[other].State = "created" /\ conns[other].LocalAddr = NilAddr

\* the packet last handed to DeliverIncomingPacket
LastRaw == IF call.op = "DeliverIncomingPacket" THEN call.raw ELSE Raw(NoPacket, 0, 0)

\* the packet is shorter than 20 bytes, is not IPv4, carries a protocol other
\* than 6 or 17, or is cut inside its TCP or UDP header
Malformed(raw) ==
    \/ raw.len < IPHeaderLen
    \/ raw.p.version # 4
    \/ raw.p.proto \notin {6, 17}
    \/ raw.len - raw.ihl * 4 < TransportLen(raw.p.proto)

\* the packet is for no listener and no connection of the tables
Unmatched(p) ==
    /\ ~(p.proto = 6 /\ "SYN" \in p.flags /\ listeningSockets[p.dst] # 0)
    /\ ~\E c \in connections : IF p.proto = 6 THEN MatchTCP(conns[c], p)
                                              ELSE MatchUDP(conns[c], p)

\* the results that are errors
Errors == {"ErrTooShort", "ErrNotIPv4", "ErrHeaderLength", "ErrTCPHeaderShort",
           "ErrUDPHeaderShort", "ErrUnsupportedProtocol", "ErrNoConnection"}

C35_IdsNonZeroAndFresh ==
    /\ Ids.n > 0 => Ids.last # U32(0, 0) /\ ~Ids.held
    /\ \A id \in Ids.taken : id # U32(0, 0) /\ id \notin connections
    /\ \A id \in Ids.taken \cup connections : ~Less32(nextConnID, id)

\* C36: however SendData(id, p) and CloseConnection(id) interleave, SendData
\* never sends on the connection's closed outbound queue: it queues p before
\* the close takes effect or it returns an error.
C36_SendNeverOnClosedQueue == panicked # "SendData"

\* C37: after CloseConnection(id) has returned, no further packet of that
\* connection is placed on outgoingPackets; a FIN, when one is emitted, is the
\* last packet of the connection, also when payloads were still queued
\* outbound or a ConnectConnection on the same id was in progress.
C37_NothingAfterClose ==
    [][\A i \in closedIds :
          /\ emitted'[i] = emitted[i]
          /\ \A t \in Callers :
                 thr[t].op = "ConnectConnection" /\ thr[t].step = "syn" /\ thr[t].id = i =>
                     thr'[t] = thr[t]]_vars

\* the endpoints that have an entry in the listener table
ListenerKeys == {k \in AddrKeys : listeningSockets[k] # 0}
\* the local endpoints of the connections of the table that are listening
ListeningKeys ==
    {String(conns[c].LocalAddr) : c \in {i \in connections : conns[i].State = "listening"}}

\* C38: at every reachable state the listener table has an entry for endpoint
\* E if and only if some connection of the connection table is in state
\* `listening` with local endpoint E, for any sequence of bind, listen,
\* connect and close operations.
C38_ListenersMatchConnections == ListenerKeys = ListeningKeys

\* the connections waiting in the accept queue of a listener of the table
Waiting ==
    {c \in ConnIDs : \E k \in ListenerKeys :
        \E n \in 1..Len(listeners[listeningSockets[k]].AcceptQueue) :
            listeners[listeningSockets[k]].AcceptQueue[n] = c}

\* C39: every connection that the handling of an inbound SYN adds to the
\* connection table is put on exactly one accept queue, where it waits until
\* AcceptConnection returns it: no connection stays in the table out of the
\* application's reach, for any number of SYNs and also after its listener
\* is closed.
C39_SynConnectionsReachable ==
    [][/\ (thr["net"].step = "tcp_syn" /\ thr'["net"].step = "tcp_synack") =>
              /\ thr'["net"].id \in connections'
              /\ Cardinality({l \in 1..Len(listeners') :
                     \E n \in 1..Len(listeners'[l].AcceptQueue) :
                         listeners'[l].AcceptQueue[n] = thr'["net"].id}) = 1
       /\ \A c \in Waiting \cap connections :
              c \in connections' =>
                  \/ c \in Waiting'
                  \/ \E t \in Apps : thr'[t] = Done("AcceptConnection", c, "ok")]_vars

\* C40: however MemoryTUN.Write and MemoryTUN.Close of the tunnel's device
\* interleave, Write never sends on the closed outbound channel: it enqueues
\* or drops the packet before the close, or it returns the TUN-closed error.
C40_WriteNeverOnClosedChannel == ~mtun.panicked

=============================================================================
